---- MODULE Spec2Model ----
(***************************************************************************)
(* TaskLog: session tracking, calendar merge, remote sync and the interval *)
(* layout of the App component, with the Firestore document it syncs to.   *)
(*                                                                         *)
(* Conventions.  A JavaScript optional number (session.end, estimatedTime, *)
(* scheduledStart, scheduledEnd, startTimeRef.current) is a natural number *)
(* with 0 standing for undefined/null: the code tests these fields by      *)
(* truthiness (!session.end), for which 0, null and undefined agree.  An   *)
(* id is a sequence of string pieces, so that "calendar-" + event.id and   *)
(* id.startsWith('calendar-') are computed and not assumed.  A day key is  *)
(* the day number of a timestamp (host clock taken as UTC).                *)
(***************************************************************************)
EXTENDS Integers, Sequences, FiniteSets, TLC

VARIABLES
    now,            \* Date.now()
    clockSteps,     \* how many steps the clock has made
    tasks,          \* useState tasks: working list of the selected day
    tasksByDate,    \* useState tasksByDate: day key -> task list
    activeTaskId,   \* useState activeTaskId
    startTimeRef,   \* useRef startTimeRef.current
    selectedDate,   \* useState selectedDate (its day)
    nextId,         \* number of tasks created by handleAddTask so far
    store,          \* the user's Firestore document
    rejectsLeft,    \* how many more writes the store will reject
    pendingSave,    \* the pending timeouts of the save effect, by their deadline
    importing,      \* the calendar fetch in flight, with the state its closure holds
    editingSession, \* useState editingSession: the session edit form, or none
    goalsByDate,    \* useState goalsByDate: day key -> the day's goals
    user,           \* useState user: a user is logged in
    currentTime,    \* useState currentTime: the instant the now-marker shows
    last,           \* the handler that ran last and the write it issued
    layout,         \* one run of the column allocator of the schedule view
    merge           \* repeated runs of the calendar merge on one day list

\* the state of the App component and of its store
appVars == <<now, clockSteps, tasks, tasksByDate, activeTaskId, startTimeRef, selectedDate,
             nextId, store, rejectsLeft, pendingSave, importing, editingSession,
             goalsByDate, user, currentTime, last>>

\* the working state of the two pure computations
calcVars == <<layout, merge>>

vars == <<appVars, calcVars>>

----------------------------------------------------------------------------
(* Bounds of the model *)

MaxTasks == 2
MaxSessions == 2
MaxAdvances == 1
MaxDaysBack == 1
\* writes the store rejects
MaxRejects == 1

----------------------------------------------------------------------------
(* Time *)

TICK_MS == 1000
DAY_MS == 24 * 60 * 60 * 1000
MAX_DURATION == 9 * 60 * 60 * 1000 + 59 * 60 * 1000 + 59 * 1000
\* the delay of the debounced save
SAVE_DELAY == 1000

\* the instant the app is opened: one second after a midnight
T0 == 3 * DAY_MS + TICK_MS

getDateKey(t) == t \div DAY_MS

DayStart(d) == d * DAY_MS

Today == getDateKey(now)

\* the clock moves by one guard period, or to just under or onto the auto-stop limit
ClockSteps == {TICK_MS, MAX_DURATION - TICK_MS, MAX_DURATION}

\* an effect run that sets its timeout beside the one of the run before
Reschedule_KeepsOld(timers, t) == timers \cup {t + SAVE_DELAY}

\* the save effect runs again at t: the cleanup of the previous run clears its
\* timeout, then setTimeout(saveData, 1000)
Reschedule(timers, t) == {t + SAVE_DELAY}

----------------------------------------------------------------------------
(* Data *)

NullId == <<>>

\* handleAddTask: id: Date.now().toString(), a fresh digit string
ManualId(n) == <<ToString(n)>>

\* `calendar-${event.id}`
CalendarId(eventId) == <<"calendar-", eventId>>

\* id.startsWith('calendar-')
IsCalendarId(id) == Len(id) > 0 /\ Head(id) = "calendar-"

NoWrite == [issued |-> FALSE]

\* useState editingSession: null
NoEdit == [open |-> FALSE]

Get(byDate, key) == IF key \in DOMAIN byDate THEN byDate[key] ELSE <<>>

Put(byDate, key, list) ==
    [k \in (DOMAIN byDate) \cup {key} |-> IF k = key THEN list ELSE byDate[k]]

Ids(list) == {list[i].id : i \in DOMAIN list}

MapSeq(list, F(_)) == [i \in DOMAIN list |-> F(list[i])]

\* the number NaN: Number of a missing part, the time of an invalid Date
NaN == 0 - 1

\* !x of an optional number: undefined, null, 0 and NaN
Falsy(x) == x = 0 \/ x = NaN

HasOpen(task) == \E i \in DOMAIN task.sessions : Falsy(task.sessions[i].end)

\* task.sessions.map(session => !session.end ? {...session, end: now} : session)
CloseOpen(sessions, t) ==
    [i \in DOMAIN sessions |->
        IF Falsy(sessions[i].end) THEN [sessions[i] EXCEPT !.end = t] ELSE sessions[i]]

\* StopTask that closes the open sessions of every task
StopTask_StopsAll(list, taskId, t) ==
    MapSeq(list, LAMBDA task : [task EXCEPT !.sessions = CloseOpen(task.sessions, t)])

\* tasks.map(task => task.id === taskId ? {...task, sessions: closed} : task)
StopTask(list, taskId, t) ==
    MapSeq(list, LAMBDA task :
        IF task.id = taskId THEN [task EXCEPT !.sessions = CloseOpen(task.sessions, t)] ELSE task)

----------------------------------------------------------------------------
(* The Firestore document *)

NoDoc == [exists |-> FALSE]

\* a map field of a merge write: a map with keys is merged key by key, an
\* empty map is a leaf of the field mask and replaces the stored map
MergeMap(oldMap, newMap) ==
    IF DOMAIN newMap = {} THEN newMap
    ELSE [k \in (DOMAIN oldMap) \cup (DOMAIN newMap) |->
             IF k \in DOMAIN newMap THEN newMap[k] ELSE oldMap[k]]

\* setDoc(ref, data, {merge: true}): fields of the write replace the stored
\* ones, the tasksByDate and goalsByDate maps are merged key by key (an empty
\* map replaces), absent fields are kept
MergeDoc(doc, data) ==
    LET old == IF doc.exists THEN doc
               ELSE [exists |-> TRUE, tasks |-> <<>>, tasksByDate |-> <<>>,
                     goalsByDate |-> <<>>, tasksDate |-> 0, activeTaskId |-> NullId,
                     activeTaskStartTime |-> 0]
    IN [exists |-> TRUE,
        tasks |-> data.tasks,
        tasksByDate |-> MergeMap(old.tasksByDate, data.tasksByDate),
        goalsByDate |-> MergeMap(old.goalsByDate, data.goalsByDate),
        tasksDate |-> data.tasksDate,
        activeTaskId |-> IF data.hasActive THEN data.activeTaskId ELSE old.activeTaskId,
        activeTaskStartTime |-> IF data.hasActive THEN data.activeTaskStartTime
                                ELSE old.activeTaskStartTime]

\* the payload of one saveUserData call
Payload(legacy, byDate, active, start, hasActive) ==
    [issued |-> TRUE, tasks |-> legacy, tasksByDate |-> byDate,
     goalsByDate |-> goalsByDate, tasksDate |-> Today,
     hasActive |-> hasActive, activeTaskId |-> active, activeTaskStartTime |-> start]

\* saveUserData: the write reaches the document or is rejected (it throws and
\* the caller logs the error)
saveUserData(data) ==
    \/ store' = MergeDoc(store, data) /\ rejectsLeft' = rejectsLeft
    \/ rejectsLeft > 0 /\ store' = store /\ rejectsLeft' = rejectsLeft - 1

----------------------------------------------------------------------------
(* Handlers *)

\* handleAddTask
handleAddTask ==
    /\ nextId < MaxTasks
    /\ LET newTask == [id |-> ManualId(nextId + 1), name |-> "new", totalTime |-> 0,
                       sessions |-> <<>>, color |-> 0, order |-> 0,
                       estimatedTime |-> 0, scheduledStart |-> 0, scheduledEnd |-> 0]
           updatedTasks == <<newTask>> \o
               MapSeq(tasks, LAMBDA task : [task EXCEPT !.order = task.order + 1])
       IN /\ tasks' = updatedTasks
          /\ tasksByDate' = Put(tasksByDate, selectedDate, updatedTasks)
    /\ nextId' = nextId + 1
    /\ last' = [op |-> "add", id |-> ManualId(nextId + 1), write |-> NoWrite]
    /\ pendingSave' = Reschedule(pendingSave, now)
    /\ UNCHANGED <<now, clockSteps, activeTaskId, startTimeRef, selectedDate, store, rejectsLeft,
                   importing, editingSession, goalsByDate, user, currentTime, calcVars>>

\* StartTask that leaves the running task running
StartTask_KeepsRunning(list, active, startRef, taskId, t) ==
    MapSeq(list, LAMBDA task :
        IF task.id = taskId
        THEN [task EXCEPT !.sessions = Append(task.sessions, [start |-> t, end |-> 0])]
        ELSE task)

\* the start branch of handleTaskToggle: the task list it computes
StartTask(list, active, startRef, taskId, t) ==
    LET stopped == IF active # NullId /\ startRef # 0 THEN StopTask(list, active, t) ELSE list
    IN MapSeq(stopped, LAMBDA task :
        IF task.id = taskId
        THEN IF HasOpen(task)
             THEN IF active # NullId /\ active # taskId
                  THEN [task EXCEPT !.sessions =
                            Append(CloseOpen(task.sessions, t), [start |-> t, end |-> 0])]
                  ELSE task
             ELSE [task EXCEPT !.sessions = Append(task.sessions, [start |-> t, end |-> 0])]
        ELSE task)

\* a stop that is undone when its write is rejected
handleTaskToggleStop_RevertsOnReject(taskId) ==
    /\ activeTaskId = taskId
    /\ LET updatedTasks == StopTask(tasks, taskId, now)
           data == Payload(<<>>, Put(tasksByDate, selectedDate, updatedTasks), NullId, 0, TRUE)
       IN /\ saveUserData(data)
          /\ last' = [op |-> "stop", id |-> taskId, write |-> data] /\ pendingSave' = Reschedule(pendingSave, now)
          /\ IF rejectsLeft' < rejectsLeft
             THEN UNCHANGED <<tasks, tasksByDate, activeTaskId, startTimeRef>>
             ELSE /\ tasks' = updatedTasks
                  /\ tasksByDate' = Put(tasksByDate, selectedDate, updatedTasks)
                  /\ activeTaskId' = NullId
                  /\ startTimeRef' = 0
    /\ UNCHANGED <<now, clockSteps, selectedDate, nextId, importing, editingSession,
                   goalsByDate, user, currentTime, calcVars>>

\* handleTaskToggle(taskId), stop branch
handleTaskToggleStop(taskId) ==
    /\ activeTaskId = taskId
    /\ LET updatedTasks == StopTask(tasks, taskId, now)
           data == Payload(<<>>, Put(tasksByDate, selectedDate, updatedTasks), NullId, 0, TRUE)
       IN /\ tasks' = updatedTasks
          /\ tasksByDate' = Put(tasksByDate, selectedDate, updatedTasks)
          /\ saveUserData(data)
          /\ last' = [op |-> "stop", id |-> taskId, write |-> data] /\ pendingSave' = Reschedule(pendingSave, now)
    /\ activeTaskId' = NullId
    /\ startTimeRef' = 0
    /\ UNCHANGED <<now, clockSteps, selectedDate, nextId, importing, editingSession, goalsByDate, user, currentTime, calcVars>>

\* handleTaskToggle(taskId), start branch
handleTaskToggleStart(taskId) ==
    /\ activeTaskId # taskId
    /\ \A i \in DOMAIN tasks : Len(tasks[i].sessions) < MaxSessions
    /\ LET updatedTasks == StartTask(tasks, activeTaskId, startTimeRef, taskId, now)
           data == Payload(<<>>, Put(tasksByDate, selectedDate, updatedTasks), taskId, now, TRUE)
       IN /\ tasks' = updatedTasks
          /\ tasksByDate' = Put(tasksByDate, selectedDate, updatedTasks)
          /\ saveUserData(data)
          /\ last' = [op |-> "start", id |-> taskId, write |-> data] /\ pendingSave' = Reschedule(pendingSave, now)
    /\ activeTaskId' = taskId
    /\ startTimeRef' = now
    /\ UNCHANGED <<now, clockSteps, selectedDate, nextId, importing, editingSession, goalsByDate, user, currentTime, calcVars>>

\* a click on a task of the selected day
handleTaskToggle ==
    \E taskId \in Ids(Get(tasksByDate, selectedDate)) :
        \/ handleTaskToggleStop(taskId)
        \/ handleTaskToggleStart(taskId)

\* the host clock
Advance ==
    /\ \E d \in ClockSteps :
        /\ clockSteps < MaxAdvances
        /\ getDateKey(now + d) = getDateKey(now)
        /\ now' = now + d
        /\ clockSteps' = clockSteps + 1
    /\ last' = [op |-> "clock", id |-> NullId, write |-> NoWrite]
    /\ UNCHANGED <<tasks, tasksByDate, activeTaskId, startTimeRef, selectedDate, nextId,
                   store, rejectsLeft, pendingSave, importing, editingSession, goalsByDate, user, currentTime, calcVars>>

\* the effect on [dateTaskIdsString, selectedDate, user]: when the id string of
\* the selected day changed, the working list is reloaded if its ids differ
IdCount(list, id) == Cardinality({i \in DOMAIN list : list[i].id = id})

SameIdString(l1, l2) ==
    \A id \in Ids(l1) \cup Ids(l2) : IdCount(l1, id) = IdCount(l2, id)

IsDifferent(l1, l2) == Len(l1) # Len(l2) \/ Ids(l1) # Ids(l2)

SyncTasks(working, oldByDate, newByDate, oldSel, newSel) ==
    LET dateTasks == Get(newByDate, newSel)
    IN IF (oldSel # newSel \/ ~SameIdString(Get(oldByDate, oldSel), dateTasks))
          /\ IsDifferent(working, dateTasks)
       THEN dateTasks
       ELSE working

\* the date buttons: setSelectedDate, then the effect on [selectedDate, user]
\* loads the day's list
Navigate ==
    /\ \E d \in {selectedDate - 1, selectedDate + 1} :
        /\ d <= Today
        /\ d >= Today - MaxDaysBack
        /\ selectedDate' = d
        /\ tasks' = Get(tasksByDate, d)
    /\ last' = [op |-> "navigate", id |-> NullId, write |-> NoWrite]
    /\ pendingSave' = Reschedule(pendingSave, now)
    /\ UNCHANGED <<now, clockSteps, tasksByDate, activeTaskId, startTimeRef, nextId, store,
                   rejectsLeft, importing, editingSession, goalsByDate, user, currentTime, calcVars>>

\* the interval of the auto-stop effect, one tick
GuardTick ==
    /\ activeTaskId # NullId
    /\ startTimeRef # 0
    /\ IF now - startTimeRef >= MAX_DURATION
       THEN LET updatedTasks == StopTask(tasks, activeTaskId, now)
                data == Payload(<<>>, Put(tasksByDate, selectedDate, updatedTasks),
                                NullId, 0, TRUE)
            IN /\ tasks' = updatedTasks
               /\ activeTaskId' = NullId
               /\ startTimeRef' = 0
               /\ tasksByDate' = Put(tasksByDate, selectedDate, updatedTasks)
               /\ saveUserData(data)
               /\ last' = [op |-> "autostop", id |-> activeTaskId, write |-> data] /\ pendingSave' = Reschedule(pendingSave, now)
               /\ UNCHANGED <<now, clockSteps, selectedDate, nextId, importing, editingSession, goalsByDate, user, currentTime, calcVars>>
       ELSE UNCHANGED vars

\* handleDeleteTask that leaves the active marker on the deleted task
handleDeleteTask_KeepsActive ==
    \E i \in DOMAIN Get(tasksByDate, selectedDate) :
        LET shown == Get(tasksByDate, selectedDate)[i]
            taskId == shown.id
            filteredTasks == SelectSeq(tasks, LAMBDA task : task.id # taskId)
            data == Payload(<<>>, Put(tasksByDate, selectedDate, filteredTasks),
                            NullId, 0, FALSE)
        IN /\ shown.scheduledStart = 0
           /\ tasks' = filteredTasks
           /\ tasksByDate' = Put(tasksByDate, selectedDate, filteredTasks)
           /\ UNCHANGED <<activeTaskId, startTimeRef>>
           /\ saveUserData(data)
           /\ last' = [op |-> "delete", id |-> taskId, write |-> data] /\ pendingSave' = Reschedule(pendingSave, now)
           /\ UNCHANGED <<now, clockSteps, selectedDate, nextId, importing, editingSession, goalsByDate, user, currentTime, calcVars>>

\* handleDeleteTask(taskId), confirmed
handleDeleteTask ==
    \E i \in DOMAIN Get(tasksByDate, selectedDate) :
        LET shown == Get(tasksByDate, selectedDate)[i]
            taskId == shown.id
            filteredTasks == SelectSeq(tasks, LAMBDA task : task.id # taskId)
            data == Payload(<<>>, Put(tasksByDate, selectedDate, filteredTasks),
                            NullId, 0, FALSE)
        IN /\ shown.scheduledStart = 0
           /\ tasks' = filteredTasks
           /\ tasksByDate' = Put(tasksByDate, selectedDate, filteredTasks)
           /\ IF activeTaskId = taskId
              THEN activeTaskId' = NullId /\ startTimeRef' = 0
              ELSE UNCHANGED <<activeTaskId, startTimeRef>>
           /\ saveUserData(data)
           /\ last' = [op |-> "delete", id |-> taskId, write |-> data] /\ pendingSave' = Reschedule(pendingSave, now)
           /\ UNCHANGED <<now, clockSteps, selectedDate, nextId, importing, editingSession, goalsByDate, user, currentTime, calcVars>>

\* sessions.reduce over the closed sessions
SumClosed(sessions) ==
    LET RECURSIVE Sum(_)
        Sum(i) == IF i = 0 THEN 0
                  ELSE IF Falsy(sessions[i].end) THEN Sum(i - 1)
                  ELSE IF Sum(i - 1) = NaN \/ sessions[i].start = NaN THEN NaN
                  ELSE Sum(i - 1) + (sessions[i].end - sessions[i].start)
    IN Sum(Len(sessions))

\* handleResetToday: the list it computes
ResetTasks(list, sel, today, active) ==
    MapSeq(list, LAMBDA task :
        LET filteredSessions == SelectSeq(task.sessions, LAMBDA session :
                IF session.end # 0
                THEN session.end < DayStart(sel)
                ELSE session.start < DayStart(sel) \/ sel # today \/ active # task.id)
        IN [task EXCEPT !.totalTime = SumClosed(filteredSessions),
                        !.sessions = filteredSessions])

\* handleResetToday, confirmed
handleResetToday ==
    LET updatedTasks == ResetTasks(tasks, selectedDate, Today, activeTaskId)
        data == Payload(<<>>, Put(tasksByDate, selectedDate, updatedTasks), NullId, 0, FALSE)
    IN /\ tasks' = updatedTasks
       /\ IF activeTaskId # NullId
          THEN activeTaskId' = NullId /\ startTimeRef' = 0
          ELSE UNCHANGED <<activeTaskId, startTimeRef>>
       /\ saveUserData(data)
       /\ last' = [op |-> "reset", id |-> NullId, write |-> data] /\ pendingSave' = Reschedule(pendingSave, now)
       /\ UNCHANGED <<now, clockSteps, tasksByDate, selectedDate, nextId, importing, editingSession, goalsByDate, user, currentTime, calcVars>>

\* the clear button without its own write
ClearDay_LeavesWriteToDebounce ==
    /\ Len(Get(tasksByDate, selectedDate)) # 0
    /\ LET data == Payload(<<>>, Put(tasksByDate, selectedDate, <<>>), NullId, 0, FALSE)
       IN /\ tasksByDate' = Put(tasksByDate, selectedDate, <<>>)
          /\ tasks' = <<>>
          /\ IF activeTaskId # NullId
             THEN activeTaskId' = NullId /\ startTimeRef' = 0
             ELSE UNCHANGED <<activeTaskId, startTimeRef>>
          /\ UNCHANGED <<store, rejectsLeft>>
          /\ last' = [op |-> "clear", id |-> NullId, write |-> NoWrite] /\ pendingSave' = Reschedule(pendingSave, now)
    /\ UNCHANGED <<now, clockSteps, selectedDate, nextId, importing, editingSession, goalsByDate, user, currentTime, calcVars>>

\* the onClick of the tasks-clear-button, confirmed
ClearDay ==
    /\ Len(Get(tasksByDate, selectedDate)) # 0
    /\ LET data == Payload(<<>>, Put(tasksByDate, selectedDate, <<>>), NullId, 0, FALSE)
       IN /\ tasksByDate' = Put(tasksByDate, selectedDate, <<>>)
          /\ tasks' = <<>>
          /\ IF activeTaskId # NullId
             THEN activeTaskId' = NullId /\ startTimeRef' = 0
             ELSE UNCHANGED <<activeTaskId, startTimeRef>>
          /\ saveUserData(data)
          /\ last' = [op |-> "clear", id |-> NullId, write |-> data] /\ pendingSave' = Reschedule(pendingSave, now)
    /\ UNCHANGED <<now, clockSteps, selectedDate, nextId, importing, editingSession, goalsByDate, user, currentTime, calcVars>>

----------------------------------------------------------------------------
(* Session edit *)

MINUTE_MS == 60 * 1000

\* the hours of the execution timeline
minHour == 7
maxHour == 22

\* `${getHours()}:${getMinutes()}` of an instant: its minute of the day
TimeOfDay(t) == (t % DAY_MS) \div MINUTE_MS

\* the value of a time input without a time: the empty text
EmptyTime == 0 - 1

\* text.split(':').map(Number) and new Date(selectedDate).setHours(hour, min,
\* 0, 0): the empty text gives the hour 0 and no minute, and the Date is invalid
AtTimeOfDay(d, minute) ==
    IF minute = EmptyTime THEN NaN ELSE DayStart(d) + minute * MINUTE_MS

\* getSelectedDateData: the sessions of the working list the execution
\* timeline draws for the selected day, each with its edit and delete
\* controls: closed sessions that touch the day, and of today's active task
\* the latest session without end, drawn up to now
ShownSessions ==
    LET dayStartTime == DayStart(selectedDate)
        dayEndTime == DayStart(selectedDate) + DAY_MS - 1
        isToday == selectedDate = Today
        openShown(i, j) ==
            /\ Falsy(tasks[i].sessions[j].end)
            /\ isToday
            /\ activeTaskId = tasks[i].id
            /\ tasks[i].sessions[j].start >= dayStartTime
            /\ \A k \in DOMAIN tasks[i].sessions :
                (Falsy(tasks[i].sessions[k].end) /\ k # j)
                    => tasks[i].sessions[k].start < tasks[i].sessions[j].start
        closedShown(i, j) ==
            /\ ~Falsy(tasks[i].sessions[j].end)
            /\ tasks[i].sessions[j].end >= dayStartTime
            /\ tasks[i].sessions[j].start <= dayEndTime
        Max(a, b) == IF a > b THEN a ELSE b
        Min(a, b) == IF a < b THEN a ELSE b
    IN {[taskId |-> tasks[i].id, sessionIndex |-> j,
         start |-> IF Falsy(tasks[i].sessions[j].end) THEN tasks[i].sessions[j].start
                   ELSE Max(tasks[i].sessions[j].start, dayStartTime),
         end |-> IF Falsy(tasks[i].sessions[j].end) THEN now
                 ELSE Min(tasks[i].sessions[j].end, dayEndTime),
         isActive |-> Falsy(tasks[i].sessions[j].end)] :
          <<i, j>> \in {p \in UNION {{<<i, j>> : j \in DOMAIN tasks[i].sessions} :
                                         i \in DOMAIN tasks} :
                            /\ tasks[p[1]].sessions[p[2]].start > 0
                            /\ \/ openShown(p[1], p[2])
                               \/ closedShown(p[1], p[2])}}

\* the sessions drawn in an hour slot of the timeline
ClickableSessions ==
    {session \in ShownSessions :
        /\ TimeOfDay(session.start) \div 60 >= minHour
        /\ TimeOfDay(session.start) \div 60 <= maxHour}

\* a click on the time range of a drawn session: handleEditSession
handleEditSession ==
    /\ \E session \in ClickableSessions :
        editingSession' = [open |-> TRUE, taskId |-> session.taskId,
                           sessionIndex |-> session.sessionIndex,
                           startTime |-> TimeOfDay(session.start),
                           endTime |-> TimeOfDay(session.end)]
    /\ last' = [op |-> "edit", id |-> editingSession'.taskId, write |-> NoWrite]
    /\ UNCHANGED <<now, clockSteps, tasks, tasksByDate, activeTaskId, startTimeRef,
                   selectedDate, nextId, store, rejectsLeft, pendingSave, importing,
                   goalsByDate, user, currentTime, calcVars>>

\* the times typed into the two inputs of the form: hours on the clock
TypedTimes == {10 * 60, 11 * 60}

\* onChange of the time inputs of the edit form
setEditingSession ==
    /\ editingSession.open
    /\ \E startTime \in TypedTimes \cup {editingSession.startTime},
          endTime \in TypedTimes \cup {editingSession.endTime} :
        /\ <<startTime, endTime>> # <<editingSession.startTime, editingSession.endTime>>
        /\ editingSession' = [editingSession EXCEPT !.startTime = startTime,
                                                    !.endTime = endTime]
    /\ UNCHANGED <<now, clockSteps, tasks, tasksByDate, activeTaskId, startTimeRef,
                   selectedDate, nextId, store, rejectsLeft, pendingSave, importing, last,
                   goalsByDate, user, currentTime, calcVars>>

\* onChange of a time input whose text the user has cleared
clearTimeInput ==
    /\ editingSession.open
    /\ \E field \in {"startTime", "endTime"} :
        /\ editingSession[field] # EmptyTime
        /\ editingSession' = [editingSession EXCEPT ![field] = EmptyTime]
    /\ UNCHANGED <<now, clockSteps, tasks, tasksByDate, activeTaskId, startTimeRef,
                   selectedDate, nextId, store, rejectsLeft, pendingSave, importing, last,
                   goalsByDate, user, currentTime, calcVars>>

\* handleSaveSession: the day list it computes
SaveSession(currentTasks, taskId, sessionIndex, newStart, newEnd) ==
    MapSeq(currentTasks, LAMBDA task :
        IF task.id = taskId
        THEN LET updatedSessions ==
                     [idx \in DOMAIN task.sessions |->
                         IF idx = sessionIndex
                         THEN [task.sessions[idx] EXCEPT !.start = newStart, !.end = newEnd]
                         ELSE task.sessions[idx]]
             IN [task EXCEPT !.sessions = updatedSessions,
                             !.totalTime = SumClosed(updatedSessions)]
        ELSE task)

\* the save button of the edit form: handleSaveSession
handleSaveSession ==
    /\ editingSession.open
    /\ LET newStart == AtTimeOfDay(selectedDate, editingSession.startTime)
           newEnd == AtTimeOfDay(selectedDate, editingSession.endTime)
           updatedTasks == SaveSession(Get(tasksByDate, selectedDate), editingSession.taskId,
                                       editingSession.sessionIndex, newStart, newEnd)
           data == Payload(updatedTasks, Put(tasksByDate, selectedDate, updatedTasks),
                           NullId, 0, FALSE)
       IN IF newEnd # NaN /\ newStart # NaN /\ newEnd <= newStart
          THEN /\ last' = [op |-> "alert", id |-> editingSession.taskId, write |-> NoWrite]
               /\ UNCHANGED <<tasks, tasksByDate, editingSession, store, rejectsLeft,
                              pendingSave>>
          ELSE /\ tasksByDate' = Put(tasksByDate, selectedDate, updatedTasks)
               /\ tasks' = updatedTasks
               /\ editingSession' = NoEdit
               /\ saveUserData(data)
               /\ pendingSave' = Reschedule(pendingSave, now)
               /\ last' = [op |-> "saveSession", id |-> editingSession.taskId,
                           write |-> data]
    /\ UNCHANGED <<now, clockSteps, activeTaskId, startTimeRef, selectedDate, nextId,
                   importing, goalsByDate, user, currentTime, calcVars>>

----------------------------------------------------------------------------
(* Remote sync *)

\* a saveData without the check for changes
saveData_AlwaysWrites(due) ==
    /\ user
    /\ due \in pendingSave
    /\ pendingSave' = pendingSave \ {due}
    /\ LET updatedTasksByDate == Put(tasksByDate, selectedDate, tasks)
           currentTasksByDate == Get(tasksByDate, selectedDate)
           hasChanges == \/ Len(currentTasksByDate) # Len(tasks)
                         \/ ~(Ids(currentTasksByDate) \subseteq Ids(tasks))
                         \/ ~(Ids(tasks) \subseteq Ids(currentTasksByDate))
           data == Payload(<<>>, updatedTasksByDate, activeTaskId, startTimeRef, TRUE)
       IN /\ saveUserData(data)
          /\ last' = [op |-> "debounce", id |-> NullId, write |-> data]
    /\ UNCHANGED <<now, clockSteps, tasks, tasksByDate, activeTaskId, startTimeRef,
                   selectedDate, nextId, importing, editingSession, goalsByDate, user, currentTime, calcVars>>

\* saveData of the debounced save effect, run by the timeout with deadline due
saveData(due) ==
    /\ user
    /\ due \in pendingSave
    /\ pendingSave' = pendingSave \ {due}
    /\ LET updatedTasksByDate == Put(tasksByDate, selectedDate, tasks)
           currentTasksByDate == Get(tasksByDate, selectedDate)
           hasChanges == \/ Len(currentTasksByDate) # Len(tasks)
                         \/ ~(Ids(currentTasksByDate) \subseteq Ids(tasks))
                         \/ ~(Ids(tasks) \subseteq Ids(currentTasksByDate))
           data == Payload(<<>>, updatedTasksByDate, activeTaskId, startTimeRef, TRUE)
       IN IF ~hasChanges
             /\ Cardinality(DOMAIN updatedTasksByDate) = Cardinality(DOMAIN tasksByDate)
          THEN /\ UNCHANGED <<store, rejectsLeft>>
               /\ last' = [op |-> "debounce", id |-> NullId, write |-> NoWrite]
          ELSE /\ saveUserData(data)
               /\ last' = [op |-> "debounce", id |-> NullId, write |-> data]
    /\ UNCHANGED <<now, clockSteps, tasks, tasksByDate, activeTaskId, startTimeRef,
                   selectedDate, nextId, importing, editingSession, goalsByDate, user, currentTime, calcVars>>

\* the timeout fires, in the specifications that do not follow its clock
DebounceFire == \E due \in pendingSave : saveData(due)

\* the timeout fires when its delay has passed
TimeoutFires == \E due \in pendingSave : now >= due /\ saveData(due)

\* a migration that puts the legacy list under its day whatever the day holds
Migrate_Overwrites(data) ==
    IF Len(data.tasks) > 0 /\ data.tasksDate # 0
    THEN Put(data.tasksByDate, data.tasksDate, data.tasks)
    ELSE data.tasksByDate

\* the snapshot callback: migration of the legacy single-day list
Migrate(data) ==
    IF Len(data.tasks) > 0 /\ data.tasksDate # 0
       /\ Len(Get(data.tasksByDate, data.tasksDate)) = 0
    THEN Put(data.tasksByDate, data.tasksDate, data.tasks)
    ELSE data.tasksByDate

\* the snapshot callback: hasChanges of the setTasksByDate updater
GateHasChanges(prevTasksByDate, firestoreTasksByDate) ==
    \/ Cardinality(DOMAIN prevTasksByDate) # Cardinality(DOMAIN firestoreTasksByDate)
    \/ ~(\A key \in DOMAIN prevTasksByDate :
            LET prevTasks == Get(prevTasksByDate, key)
                newTasks == Get(firestoreTasksByDate, key)
            IN \/ Len(prevTasks) # Len(newTasks)
               \/ /\ Ids(prevTasks) \subseteq Ids(newTasks)
                  /\ Ids(newTasks) \subseteq Ids(prevTasks))

\* the snapshot callback: the setTasksByDate updater
Gate(prevTasksByDate, firestoreTasksByDate) ==
    IF GateHasChanges(prevTasksByDate, firestoreTasksByDate)
    THEN firestoreTasksByDate
    ELSE prevTasksByDate

\* the activeTaskId the subscription callback closed over: the effect runs on
\* [user] only, so it is the value at login
closureActiveTaskId == NullId

\* todayTasks.find(t => t.id === data.activeTaskId)
FindTask(list, id) ==
    LET hits == {i \in DOMAIN list : list[i].id = id}
    IN IF hits = {} THEN <<>>
       ELSE <<list[CHOOSE i \in hits : \A j \in hits : i <= j]>>

\* a reconcile that restores the marker without looking for an open session
ReconcileActive_TrustsMarker(data, firestoreTasksByDate, today, active, startRef) ==
    IF data.tasksDate # today
    THEN <<NullId, 0>>
    ELSE LET found == FindTask(Get(firestoreTasksByDate, today), data.activeTaskId)
         IN IF data.activeTaskId # NullId /\ data.activeTaskStartTime # 0
               /\ found # <<>>
            THEN <<data.activeTaskId, data.activeTaskStartTime>>
            ELSE IF closureActiveTaskId # NullId \/ startRef # 0
                 THEN <<NullId, 0>>
                 ELSE <<active, startRef>>

\* the snapshot callback: <<activeTaskId, startTimeRef.current>> afterwards
ReconcileActive(data, firestoreTasksByDate, today, active, startRef) ==
    IF data.tasksDate # today
    THEN <<NullId, 0>>
    ELSE LET found == FindTask(Get(firestoreTasksByDate, today), data.activeTaskId)
         IN IF data.activeTaskId # NullId /\ data.activeTaskStartTime # 0
               /\ found # <<>> /\ HasOpen(found[1])
            THEN <<data.activeTaskId, data.activeTaskStartTime>>
            ELSE IF closureActiveTaskId # NullId \/ startRef # 0
                 THEN <<NullId, 0>>
                 ELSE <<active, startRef>>

\* the snapshot callback: the setGoalsByDate updater (local goals win); it
\* runs for a snapshot recorded under today only
MergeGoals(prevGoalsByDate, firestoreGoals) ==
    [k \in (DOMAIN firestoreGoals) \cup (DOMAIN prevGoalsByDate) |->
        IF k \in DOMAIN prevGoalsByDate THEN prevGoalsByDate[k] ELSE firestoreGoals[k]]

\* the snapshot callback called with null
SnapshotNull ==
    /\ tasks' = <<>>
    /\ goalsByDate' = <<>>
    /\ activeTaskId' = NullId
    /\ startTimeRef' = 0
    /\ pendingSave' = Reschedule(pendingSave, now)
    /\ UNCHANGED tasksByDate

\* onSnapshot delivers the document (or its absence) to the callback
ReceiveSnapshot ==
    /\ user
    /\ IF store.exists
       THEN LET firestoreTasksByDate == Migrate(store)
                newByDate == Gate(tasksByDate, firestoreTasksByDate)
                act == ReconcileActive(store, firestoreTasksByDate, Today,
                                       activeTaskId, startTimeRef)
            IN /\ tasksByDate' = newByDate
               /\ tasks' = SyncTasks(tasks, tasksByDate, newByDate, selectedDate, selectedDate)
               /\ activeTaskId' = act[1]
               /\ startTimeRef' = act[2]
               /\ goalsByDate' = IF store.tasksDate = Today
                                 THEN MergeGoals(goalsByDate, store.goalsByDate)
                                 ELSE goalsByDate
               /\ pendingSave' = IF \/ newByDate # tasksByDate
                                    \/ act[1] # activeTaskId
                                    \/ store.tasksDate = Today
                                 THEN Reschedule(pendingSave, now)
                                 ELSE pendingSave
       ELSE SnapshotNull
    /\ last' = [op |-> "snapshot", id |-> NullId, write |-> NoWrite]
    /\ UNCHANGED <<now, clockSteps, selectedDate, nextId, store, rejectsLeft, importing,
                   editingSession, user, currentTime, calcVars>>

\* the error callback of onSnapshot: the callback is called with null
SubscriptionError ==
    /\ user
    /\ SnapshotNull
    /\ last' = [op |-> "snapshotError", id |-> NullId, write |-> NoWrite]
    /\ UNCHANGED <<now, clockSteps, selectedDate, nextId, store, rejectsLeft, importing,
                   editingSession, user, currentTime, calcVars>>

----------------------------------------------------------------------------
(* Goals, the now-marker and logout *)

\* createDefaultGoals: two quadrants of three goals; a goal's id is fixed by
\* its quadrant and position and is left out
createDefaultGoals ==
    [quadrant1 |-> [i \in 1..3 |-> [text |-> "", achievementRate |-> 0]],
     quadrant2 |-> [i \in 1..3 |-> [text |-> "", achievementRate |-> 0]]]

\* the values the rate of the first goal of quadrant1 is set to
GoalValues == {50, 150}

\* a clamp that bounds a rate from above only
ClampRate_UpperOnly(value) == IF value > 100 THEN 100 ELSE value

\* Math.max(0, Math.min(100, value))
ClampRate(value) == IF value > 100 THEN 100 ELSE IF value < 0 THEN 0 ELSE value

\* the setGoalsByDate updater of handleGoalUpdate; index counts from 1
UpdateGoals(prevGoalsByDate, dateKey, quadrant, index, field, value) ==
    LET currentGoals == IF dateKey \in DOMAIN prevGoalsByDate
                        THEN prevGoalsByDate[dateKey] ELSE createDefaultGoals
        goal == IF field = "text"
                THEN [currentGoals[quadrant][index] EXCEPT !.text = value]
                ELSE [currentGoals[quadrant][index] EXCEPT
                         !.achievementRate = ClampRate(value)]
        newGoals == [currentGoals EXCEPT ![quadrant] =
                        [i \in DOMAIN currentGoals[quadrant] |->
                            IF i = index THEN goal ELSE currentGoals[quadrant][i]]]
    IN Put(prevGoalsByDate, dateKey, newGoals)

\* handleGoalUpdate(quadrant, index, field, value)
GoalUpdate(quadrant, index, field, value) ==
    /\ goalsByDate' = UpdateGoals(goalsByDate, selectedDate, quadrant, index, field, value)
    /\ pendingSave' = Reschedule(pendingSave, now)
    /\ last' = [op |-> "goal", id |-> NullId, write |-> NoWrite]
    /\ UNCHANGED <<now, clockSteps, tasks, tasksByDate, activeTaskId, startTimeRef,
                   selectedDate, nextId, store, rejectsLeft, importing, editingSession,
                   user, currentTime, calcVars>>

\* handleGoalUpdate('quadrant1', 0, 'achievementRate', value)
handleGoalUpdate ==
    \E value \in GoalValues : GoalUpdate("quadrant1", 1, "achievementRate", value)

\* the edits of the goal panel in the goals specification: both quadrants,
\* first and last position, both fields, a rate over and one under the range
GoalInputs ==
    {<<"quadrant1", 1, "achievementRate", 150>>,
     <<"quadrant1", 1, "achievementRate", 0 - 20>>,
     <<"quadrant2", 3, "achievementRate", 70>>,
     <<"quadrant1", 3, "text", "a">>}

\* handleGoalUpdate called with any of the inputs
GoalEdit ==
    \E input \in GoalInputs : GoalUpdate(input[1], input[2], input[3], input[4])

\* handleCopyPreviousDayGoals
handleCopyPreviousDayGoals ==
    /\ LET prevDateKey == selectedDate - 1
       IN IF prevDateKey \notin DOMAIN goalsByDate
          THEN /\ last' = [op |-> "noPreviousGoals", id |-> NullId, write |-> NoWrite]
               /\ UNCHANGED <<goalsByDate, pendingSave>>
          ELSE LET prevGoals == goalsByDate[prevDateKey]
                   copiedGoals ==
                       [quadrant1 |-> [idx \in DOMAIN prevGoals.quadrant1 |->
                           [text |-> prevGoals.quadrant1[idx].text,
                            achievementRate |-> prevGoals.quadrant1[idx].achievementRate]],
                        quadrant2 |-> [idx \in DOMAIN prevGoals.quadrant2 |->
                           [text |-> prevGoals.quadrant2[idx].text,
                            achievementRate |-> prevGoals.quadrant2[idx].achievementRate]]]
               IN /\ goalsByDate' = Put(goalsByDate, selectedDate, copiedGoals)
                  /\ pendingSave' = Reschedule(pendingSave, now)
                  /\ last' = [op |-> "copyGoals", id |-> NullId, write |-> NoWrite]
    /\ UNCHANGED <<now, clockSteps, tasks, tasksByDate, activeTaskId, startTimeRef,
                   selectedDate, nextId, store, rejectsLeft, importing, editingSession,
                   user, currentTime, calcVars>>

\* the interval of the effect on []: setCurrentTime(new Date())
CurrentTimeTick ==
    /\ currentTime' = now
    /\ last' = [op |-> "currentTime", id |-> NullId, write |-> NoWrite]
    /\ UNCHANGED <<now, clockSteps, tasks, tasksByDate, activeTaskId, startTimeRef,
                   selectedDate, nextId, store, rejectsLeft, pendingSave, importing,
                   editingSession, goalsByDate, user, calcVars>>

\* handleLogout: the write, then signOut; when signOut succeeds the effects on
\* [user] clear the working list and the goals, drop the listener and the
\* debounce timeout
handleLogout ==
    /\ user
    /\ LET data == Payload(<<>>, Put(tasksByDate, selectedDate, tasks),
                           activeTaskId, startTimeRef, TRUE)
       IN /\ saveUserData(data)
          /\ \/ /\ user' = FALSE
                /\ tasks' = <<>>
                /\ goalsByDate' = <<>>
                /\ activeTaskId' = NullId
                /\ startTimeRef' = 0
                /\ pendingSave' = {}
                /\ last' = [op |-> "logout", id |-> NullId, write |-> data]
             \/ /\ last' = [op |-> "logoutFailed", id |-> NullId, write |-> data]
                /\ UNCHANGED <<user, tasks, goalsByDate, activeTaskId, startTimeRef,
                               pendingSave>>
    /\ UNCHANGED <<now, clockSteps, tasksByDate, selectedDate, nextId, importing,
                   editingSession, currentTime, calcVars>>

----------------------------------------------------------------------------
(* Calendar import *)

HOUR_MS == 60 * 60 * 1000

TASK_COLORS == 10

\* an event of the calendar API: kind "timed" has start.dateTime and
\* end.dateTime, "allday" has start.date and end.date (start holds the day),
\* "nostart" has neither
Event(id, summary, kind, start, end) ==
    [id |-> id, summary |-> summary, kind |-> kind, start |-> start, end |-> end]

\* CalendarTask that schedules an all-day event over the whole day
CalendarTask_WholeDay(event, index, dateTasksLength) ==
    [id |-> CalendarId(event.id),
     name |-> IF event.summary # "" THEN event.summary ELSE "untitled",
     totalTime |-> 0,
     sessions |-> <<>>,
     color |-> index % TASK_COLORS,
     order |-> dateTasksLength + index,
     estimatedTime |-> IF event.kind = "timed" THEN event.end - event.start ELSE DAY_MS,
     scheduledStart |-> IF event.kind = "timed" THEN event.start ELSE DayStart(event.start),
     scheduledEnd |-> IF event.kind = "timed" THEN event.end ELSE DayStart(event.start) + DAY_MS]

\* the map callback of calendarTasks
CalendarTask(event, index, dateTasksLength) ==
    LET scheduledStart == IF event.kind = "timed" THEN event.start
                          ELSE IF event.kind = "allday"
                               THEN DayStart(event.start) + 9 * HOUR_MS
                               ELSE 0
        scheduledEnd == IF event.kind = "timed" THEN event.end
                        ELSE IF event.kind = "allday"
                             THEN DayStart(event.start) + 17 * HOUR_MS
                             ELSE 0
        estimatedTime == IF event.kind = "timed" THEN scheduledEnd - scheduledStart
                         ELSE IF event.kind = "allday" THEN 8 * HOUR_MS
                              ELSE 0
    IN [id |-> CalendarId(event.id),
        name |-> IF event.summary # "" THEN event.summary ELSE "untitled",
        totalTime |-> 0,
        sessions |-> <<>>,
        color |-> index % TASK_COLORS,
        order |-> dateTasksLength + index,
        estimatedTime |-> IF estimatedTime > 0 THEN estimatedTime ELSE 0,
        scheduledStart |-> scheduledStart,
        scheduledEnd |-> scheduledEnd]

\* ImportTasks that appends a task for every event, known or not
ImportTasks_AppendsAll(dateTasks, items) ==
    LET events == SelectSeq(items, LAMBDA event : event.kind \in {"timed", "allday"})
        calendarTasks == [i \in DOMAIN events |->
                            CalendarTask(events[i], i - 1, Len(dateTasks))]
    IN dateTasks \o calendarTasks

\* fetchTasksFromGoogleCalendar after the response: the day list it commits
ImportTasks(dateTasks, items) ==
    LET events == SelectSeq(items, LAMBDA event : event.kind \in {"timed", "allday"})
        calendarTasks == [i \in DOMAIN events |->
                            CalendarTask(events[i], i - 1, Len(dateTasks))]
        currentTaskIds == Ids(dateTasks)
        updatedDateTasks == MapSeq(dateTasks, LAMBDA existingTask :
            LET found == FindTask(calendarTasks, existingTask.id)
            IN IF IsCalendarId(existingTask.id) /\ found # <<>>
               THEN [existingTask EXCEPT !.scheduledStart = found[1].scheduledStart,
                                         !.scheduledEnd = found[1].scheduledEnd,
                                         !.estimatedTime = found[1].estimatedTime]
               ELSE existingTask)
        newTasks == SelectSeq(calendarTasks, LAMBDA t : t.id \notin currentTaskIds)
    IN updatedDateTasks \o newTasks

NotImporting == [active |-> FALSE]

\* the event lists the calendar returns for a day in this specification
DayEvents(d) ==
    {<<>>,
     <<Event("e1", "standup", "timed", DayStart(d) + 9 * HOUR_MS, DayStart(d) + 10 * HOUR_MS)>>}

\* the fetch button: fetchTasksFromGoogleCalendar(selectedDate) up to its await
ImportBegin ==
    /\ ~importing.active
    /\ importing' = [active |-> TRUE, tasksByDate |-> tasksByDate,
                     selectedDate |-> selectedDate]
    /\ UNCHANGED <<now, clockSteps, tasks, tasksByDate, activeTaskId, startTimeRef,
                   selectedDate, nextId, store, rejectsLeft, pendingSave, last, editingSession, goalsByDate, user, currentTime, calcVars>>

\* fetchTasksFromGoogleCalendar from the response on
ImportCommit ==
    /\ importing.active
    /\ importing' = NotImporting
    /\ \E items \in DayEvents(importing.selectedDate) :
        IF Len(items) = 0
        THEN UNCHANGED <<tasks, tasksByDate, pendingSave, last>>
        ELSE LET dateKey == importing.selectedDate
                 finalDateTasks == ImportTasks(Get(importing.tasksByDate, dateKey), items)
                 newByDate == Put(tasksByDate, dateKey, finalDateTasks)
             IN /\ tasksByDate' = newByDate
                /\ tasks' = SyncTasks(finalDateTasks, tasksByDate, newByDate,
                                      selectedDate, selectedDate)
                /\ pendingSave' = Reschedule(pendingSave, now)
                /\ last' = [op |-> "import", id |-> NullId, write |-> NoWrite]
    /\ UNCHANGED <<now, clockSteps, activeTaskId, startTimeRef, selectedDate, nextId,
                   store, rejectsLeft, editingSession, goalsByDate, user, currentTime, calcVars>>

\* a 401 response that also empties the working list
ImportUnauthorized_ClearsList ==
    /\ importing.active
    /\ importing' = NotImporting
    /\ \E outcome \in {"reauthorized", "authExpired"} :
        last' = [op |-> outcome, id |-> NullId, write |-> NoWrite]
    /\ tasks' = <<>>
    /\ UNCHANGED <<now, clockSteps, tasksByDate, activeTaskId, startTimeRef,
                   selectedDate, nextId, store, rejectsLeft, pendingSave, editingSession,
                   goalsByDate, user, currentTime, calcVars>>

\* fetchTasksFromGoogleCalendar when the response is 401: the token is
\* dropped and signInWithGoogle is tried; with a new token the user is asked
\* to press the button again, otherwise to reconnect
ImportUnauthorized ==
    /\ importing.active
    /\ importing' = NotImporting
    /\ \E outcome \in {"reauthorized", "authExpired"} :
        last' = [op |-> outcome, id |-> NullId, write |-> NoWrite]
    /\ UNCHANGED <<now, clockSteps, tasks, tasksByDate, activeTaskId, startTimeRef,
                   selectedDate, nextId, store, rejectsLeft, pendingSave, editingSession,
                   goalsByDate, user, currentTime, calcVars>>

----------------------------------------------------------------------------
(* Calendar merge: the import run again on its own result *)

MaxEvents == 2
MaxDayTasks == 2
MaxRuns == 2

\* the calendar's events of the day: MaxEvents event ids, each as a timed
\* event at one of two hours, an all-day event, or an event without start
EventChoices(d) ==
    UNION {{Event(ToString(n), "standup", "timed",
                  DayStart(d) + 9 * HOUR_MS, DayStart(d) + 10 * HOUR_MS),
            Event(ToString(n), "", "timed",
                  DayStart(d) + 10 * HOUR_MS, DayStart(d) + 12 * HOUR_MS),
            Event(ToString(n), "offsite", "allday", d, d + 1),
            Event(ToString(n), "draft", "nostart", 0, 0)} : n \in 1..MaxEvents}

\* event lists as the API returns them: every event id once
EventLists(d) ==
    UNION {{items \in [1..n -> EventChoices(d)] :
                \A i, j \in 1..n : i # j => items[i].id # items[j].id} : n \in 0..MaxEvents}

\* tasks a day list may hold before an import: a manual task with a closed
\* session, and for each event id a task of an earlier import, worked on since
\* and scheduled at an hour the calendar no longer has
DayTaskChoices(d) ==
    {[id |-> ManualId(1), name |-> "new", totalTime |-> HOUR_MS,
      sessions |-> <<[start |-> DayStart(d) + 7 * HOUR_MS, end |-> DayStart(d) + 8 * HOUR_MS]>>,
      color |-> 0, order |-> 0, estimatedTime |-> 0, scheduledStart |-> 0,
      scheduledEnd |-> 0]}
    \cup
    {[id |-> CalendarId(ToString(n)), name |-> "standup", totalTime |-> 2 * HOUR_MS,
      sessions |-> <<[start |-> DayStart(d) + 13 * HOUR_MS, end |-> DayStart(d) + 15 * HOUR_MS]>>,
      color |-> 0, order |-> 0, estimatedTime |-> HOUR_MS,
      scheduledStart |-> DayStart(d) + 14 * HOUR_MS,
      scheduledEnd |-> DayStart(d) + 15 * HOUR_MS] : n \in 1..MaxEvents}

\* day lists: every task id once, order counting from the head
DayLists(d) ==
    UNION {{[i \in 1..n |-> [list[i] EXCEPT !.order = i - 1]] :
                list \in {l \in [1..n -> DayTaskChoices(d)] :
                              \A i, j \in 1..n : i # j => l[i].id # l[j].id}} :
           n \in 0..MaxDayTasks}

\* fetchTasksFromGoogleCalendar from the response on, as a function of the
\* day list its closure holds: no items, no change
ImportResult(dateTasks, items) ==
    IF Len(items) = 0 THEN dateTasks ELSE ImportTasks(dateTasks, items)

NoMerge == [dateTasks |-> <<>>, items |-> <<>>, runs |-> MaxRuns, once |-> <<>>,
            result |-> <<>>]

StartMerge(dateTasks, items) ==
    [dateTasks |-> dateTasks, items |-> items, runs |-> 0, once |-> dateTasks,
     result |-> dateTasks]

\* one more import of the same event list, on the list the last one committed
ImportAgain ==
    /\ merge.runs < MaxRuns
    /\ LET finalDateTasks == ImportResult(merge.result, merge.items)
       IN merge' = [merge EXCEPT !.runs = @ + 1,
                                 !.result = finalDateTasks,
                                 !.once = IF merge.runs = 0 THEN finalDateTasks ELSE @]
    /\ UNCHANGED <<appVars, layout>>

----------------------------------------------------------------------------
(* Schedule view: the column allocator *)

MaxScheduled == 4
MaxSlot == 2

columnCount == 3

\* the instants scheduled tasks start and end at: the hours from 09:00 on
SlotTime(k) == DayStart(getDateKey(T0)) + (9 + k) * HOUR_MS

\* a value of scheduledTasksMap
ScheduledTask(taskId, start, end) == [taskId |-> taskId, start |-> start, end |-> end]

\* the values of scheduledTasksMap, in the order of the day list: the map is
\* keyed by task id, and estimatedTime > 0 makes every interval start < end
ScheduledInputs ==
    LET intervals == {<<s, e>> \in (0..MaxSlot) \X (0..MaxSlot) : s < e}
    IN UNION {{[i \in 1..n |-> ScheduledTask(CalendarId(ToString(i)),
                                              SlotTime(f[i][1]), SlotTime(f[i][2]))] :
                f \in [1..n -> intervals]} : n \in 1..MaxScheduled}

\* Overlap that sees only tasks starting together
Overlap_SameStart(task, existingTask) ==
    task.start = existingTask.start

\* task.start < existingTask.end && task.end > existingTask.start
Overlap(task, existingTask) ==
    task.start < existingTask.end /\ task.end > existingTask.start

\* one step of Array.prototype.sort((a, b) => a.start - b.start), which is stable
InsertByStart(sorted, task) ==
    LET k == Cardinality({i \in DOMAIN sorted : sorted[i].start <= task.start})
    IN SubSeq(sorted, 1, k) \o <<task>> \o SubSeq(sorted, k + 1, Len(sorted))

RECURSIVE SortByStart(_)
SortByStart(list) ==
    IF list = <<>> THEN <<>>
    ELSE InsertByStart(SortByStart(SubSeq(list, 1, Len(list) - 1)), list[Len(list)])

NoLayout == [allTasksSorted |-> <<>>, next |-> 1, columnTasks |-> <<>>,
             globalColumnAssignments |-> <<>>, forced |-> {}]

\* the state of the allocator before its loop
StartLayout(scheduledTasks) ==
    [allTasksSorted |-> SortByStart(scheduledTasks), next |-> 1,
     columnTasks |-> [c \in 1..columnCount |-> <<>>],
     globalColumnAssignments |-> <<>>, forced |-> {}]

\* AssignColumn that forces a task into the last column
AssignColumn_ForcesLast ==
    /\ layout.next <= Len(layout.allTasksSorted)
    /\ LET task == layout.allTasksSorted[layout.next]
           free == {colIdx \in 0..(columnCount - 1) :
                       \A i \in DOMAIN layout.columnTasks[colIdx + 1] :
                           ~Overlap(task, layout.columnTasks[colIdx + 1][i])}
           assignedColumn == IF free = {} THEN columnCount - 1
                             ELSE CHOOSE c \in free : \A d \in free : c <= d
       IN layout' = [layout EXCEPT
              !.next = @ + 1,
              !.columnTasks[assignedColumn + 1] = Append(@, task),
              !.globalColumnAssignments =
                  Append(@, [taskId |-> task.taskId, column |-> assignedColumn]),
              !.forced = IF free = {} THEN @ \cup {task.taskId} ELSE @]
    /\ UNCHANGED <<appVars, merge>>

\* one iteration of for (const task of allTasksSorted): columnTasks[c + 1] is
\* column c; forced records the tasks that took the assignedColumn === -1 branch
AssignColumn ==
    /\ layout.next <= Len(layout.allTasksSorted)
    /\ LET task == layout.allTasksSorted[layout.next]
           free == {colIdx \in 0..(columnCount - 1) :
                       \A i \in DOMAIN layout.columnTasks[colIdx + 1] :
                           ~Overlap(task, layout.columnTasks[colIdx + 1][i])}
           assignedColumn == IF free = {} THEN 0
                             ELSE CHOOSE c \in free : \A d \in free : c <= d
       IN layout' = [layout EXCEPT
              !.next = @ + 1,
              !.columnTasks[assignedColumn + 1] = Append(@, task),
              !.globalColumnAssignments =
                  Append(@, [taskId |-> task.taskId, column |-> assignedColumn]),
              !.forced = IF free = {} THEN @ \cup {task.taskId} ELSE @]
    /\ UNCHANGED <<appVars, merge>>

----------------------------------------------------------------------------
(* Specification *)

\* the App component after its first render, before any task exists
InitApp ==
    /\ now = T0
    /\ clockSteps = 0
    /\ tasks = <<>>
    /\ tasksByDate = <<>>
    /\ activeTaskId = NullId
    /\ startTimeRef = 0
    /\ selectedDate = getDateKey(T0)
    /\ nextId = 0
    /\ store = NoDoc
    /\ rejectsLeft = 0
    /\ pendingSave = {}
    /\ importing = NotImporting
    /\ editingSession = NoEdit
    /\ goalsByDate = <<>>
    /\ user = TRUE
    /\ currentTime = now
    /\ last = [op |-> "init", id |-> NullId, write |-> NoWrite]

Init ==
    /\ InitApp
    /\ layout = NoLayout
    /\ merge = NoMerge

Next ==
    \/ handleAddTask
    \/ handleTaskToggle
    \/ Advance
    \/ Navigate
    \/ GuardTick
    \/ handleDeleteTask
    \/ handleResetToday
    \/ ClearDay
    \/ DebounceFire
    \/ ReceiveSnapshot

\* the session machine and the sync with the store
Spec == Init /\ [][Next]_vars

NextCalendar ==
    \/ handleAddTask
    \/ handleTaskToggle
    \/ handleDeleteTask
    \/ handleGoalUpdate
    \/ ImportBegin
    \/ ImportCommit
    \/ ImportUnauthorized

\* the calendar import among the edits of the task lists
SpecCalendar == Init /\ [][NextCalendar]_vars

\* the app opened at 09:00, inside the hours of the execution timeline
InitEdit ==
    /\ now = DayStart(getDateKey(T0)) + 9 * HOUR_MS
    /\ clockSteps = 0
    /\ tasks = <<>>
    /\ tasksByDate = <<>>
    /\ activeTaskId = NullId
    /\ startTimeRef = 0
    /\ selectedDate = getDateKey(T0)
    /\ nextId = 0
    /\ store = NoDoc
    /\ rejectsLeft = 0
    /\ pendingSave = {}
    /\ importing = NotImporting
    /\ editingSession = NoEdit
    /\ goalsByDate = <<>>
    /\ user = TRUE
    /\ currentTime = now
    /\ last = [op |-> "init", id |-> NullId, write |-> NoWrite]
    /\ layout = NoLayout
    /\ merge = NoMerge

NextEdit ==
    \/ handleAddTask
    \/ handleTaskToggle
    \/ Advance
    \/ handleEditSession
    \/ setEditingSession
    \/ handleSaveSession

\* the edit form of the execution timeline among starts and stops
SpecEdit == InitEdit /\ [][NextEdit]_vars

InitReject ==
    /\ now = T0
    /\ clockSteps = 0
    /\ tasks = <<>>
    /\ tasksByDate = <<>>
    /\ activeTaskId = NullId
    /\ startTimeRef = 0
    /\ selectedDate = getDateKey(T0)
    /\ nextId = 0
    /\ store = NoDoc
    /\ rejectsLeft = MaxRejects
    /\ pendingSave = {}
    /\ importing = NotImporting
    /\ editingSession = NoEdit
    /\ goalsByDate = <<>>
    /\ user = TRUE
    /\ currentTime = now
    /\ last = [op |-> "init", id |-> NullId, write |-> NoWrite]
    /\ layout = NoLayout
    /\ merge = NoMerge

NextReject ==
    \/ handleAddTask
    \/ handleTaskToggle
    \/ handleDeleteTask
    \/ ClearDay
    \/ handleGoalUpdate
    \/ DebounceFire
    \/ Advance

\* the handlers while the store rejects some of the writes
SpecReject == InitReject /\ [][NextReject]_vars

NextLogout ==
    \/ user /\ handleAddTask
    \/ user /\ handleTaskToggle
    \/ user /\ handleDeleteTask
    \/ user /\ ClearDay
    \/ user /\ handleGoalUpdate
    \/ Advance
    \/ GuardTick
    \/ CurrentTimeTick
    \/ ReceiveSnapshot
    \/ SubscriptionError
    \/ handleLogout

\* one login: the handlers, the timers and the listener until and after logout
SpecLogout == Init /\ [][NextLogout]_vars

\* the task the user worked on the day before: one closed session from
\* 10:00 to 10:30 of that day
YesterdayTask ==
    LET y == getDateKey(T0) - 1
    IN [id |-> ManualId(1), name |-> "new", totalTime |-> 30 * MINUTE_MS,
        sessions |-> <<[start |-> DayStart(y) + 10 * HOUR_MS,
                        end |-> DayStart(y) + 10 * HOUR_MS + 30 * MINUTE_MS]>>,
        color |-> 0, order |-> 0, estimatedTime |-> 0, scheduledStart |-> 0,
        scheduledEnd |-> 0]

\* the app opened at 09:00 on the day after: the document written the day
\* before has been loaded, today's list is empty
InitYesterday ==
    /\ now = DayStart(getDateKey(T0)) + 9 * HOUR_MS
    /\ clockSteps = 0
    /\ tasks = <<>>
    /\ tasksByDate = (getDateKey(T0) - 1) :> <<YesterdayTask>>
    /\ activeTaskId = NullId
    /\ startTimeRef = 0
    /\ selectedDate = getDateKey(T0)
    /\ nextId = 1
    /\ store = [exists |-> TRUE, tasks |-> <<>>,
                tasksByDate |-> (getDateKey(T0) - 1) :> <<YesterdayTask>>,
                goalsByDate |-> <<>>, tasksDate |-> getDateKey(T0) - 1,
                activeTaskId |-> NullId, activeTaskStartTime |-> 0]
    /\ rejectsLeft = 0
    /\ pendingSave = {}
    /\ importing = NotImporting
    /\ editingSession = NoEdit
    /\ goalsByDate = <<>>
    /\ user = TRUE
    /\ currentTime = now
    /\ last = [op |-> "init", id |-> NullId, write |-> NoWrite]
    /\ layout = NoLayout
    /\ merge = NoMerge

NextYesterday ==
    \/ Navigate
    \/ handleAddTask
    \/ handleEditSession
    \/ setEditingSession
    \/ handleSaveSession
    \/ DebounceFire
    \/ ReceiveSnapshot

\* session edits on the day before, with the listener and the debounced save
SpecYesterday == InitYesterday /\ [][NextYesterday]_vars

NextEventually ==
    \/ handleAddTask
    \/ handleGoalUpdate
    \/ handleCopyPreviousDayGoals
    \/ Navigate
    \/ DebounceFire

\* the local mutations and the debounced save; a timeout that is pending
\* fires, and no write is rejected
SpecEventually == Init /\ [][NextEventually]_vars /\ WF_vars(DebounceFire)

NextAbsent ==
    \/ handleAddTask
    \/ handleTaskToggle
    \/ handleGoalUpdate
    \/ DebounceFire
    \/ ReceiveSnapshot
    \/ SubscriptionError

\* the listener that may fail, with the handlers and the debounced save
SpecAbsent == Init /\ [][NextAbsent]_vars

NextStale ==
    \/ handleAddTask
    \/ handleTaskToggle
    \/ DebounceFire
    \/ ReceiveSnapshot

\* starts and stops whose write the store may reject, with the listener: the
\* document then delivered is the one written before the start or stop
SpecStale == InitReject /\ [][NextStale]_vars

NextGoals ==
    \/ GoalEdit
    \/ handleCopyPreviousDayGoals
    \/ Navigate
    \/ DebounceFire
    \/ ReceiveSnapshot

\* the goal panel with the listener and the debounced save
SpecGoals == Init /\ [][NextGoals]_vars

NextCleared ==
    \/ Navigate
    \/ handleEditSession
    \/ setEditingSession
    \/ clearTimeInput
    \/ handleSaveSession
    \/ DebounceFire

\* the edit form with time inputs the user may clear, on the day before
SpecCleared == InitYesterday /\ [][NextCleared]_vars

\* a task of a document: without session, with a closed one, or with an open one
InboundTask(n, kind) ==
    [id |-> ManualId(n), name |-> "new",
     totalTime |-> IF kind = "closed" THEN TICK_MS ELSE 0,
     sessions |-> IF kind = "open" THEN <<[start |-> T0 - TICK_MS, end |-> 0]>>
                  ELSE IF kind = "closed"
                       THEN <<[start |-> T0 - 2 * TICK_MS, end |-> T0 - TICK_MS]>>
                       ELSE <<>>,
     color |-> 0, order |-> 0, estimatedTime |-> 0, scheduledStart |-> 0, scheduledEnd |-> 0]

\* the lists a day of a document holds
InboundLists ==
    {<<>>,
     <<InboundTask(1, "open")>>,
     <<InboundTask(1, "closed")>>,
     <<InboundTask(1, "closed"), InboundTask(2, "open")>>}

\* per-day indexes over yesterday and today
InboundIndexes ==
    LET days == {getDateKey(T0) - 1, getDateKey(T0)}
    IN UNION {[present -> InboundLists] : present \in SUBSET days}

\* per-day goals of a document and of this device
DayGoals(rate) ==
    [createDefaultGoals EXCEPT !.quadrant1[1].achievementRate = rate]

InboundGoals ==
    {<<>>,
     getDateKey(T0) :> DayGoals(100),
     (getDateKey(T0) - 1) :> DayGoals(50) @@ getDateKey(T0) :> DayGoals(100)}

LocalGoals ==
    {<<>>,
     getDateKey(T0) :> DayGoals(50),
     (getDateKey(T0) - 1) :> DayGoals(100)}

\* the documents the listener may deliver: written by any device, by this or
\* by an earlier version of the app (legacy list, no recorded day)
InboundDocs ==
    {[exists |-> TRUE, tasks |-> legacy, tasksByDate |-> byDate, goalsByDate |-> goals,
      tasksDate |-> day, activeTaskId |-> marker[1], activeTaskStartTime |-> marker[2]] :
        legacy \in {<<>>, <<InboundTask(2, "open")>>},
        byDate \in InboundIndexes,
        goals \in InboundGoals,
        day \in {0, getDateKey(T0) - 1, getDateKey(T0)},
        marker \in {<<NullId, 0>>, <<ManualId(1), T0 - TICK_MS>>,
                    <<ManualId(2), T0 - TICK_MS>>}}

\* what this device holds when the snapshot arrives: nothing, or task 1
\* running for two ticks
InitInbound ==
    /\ now = T0
    /\ clockSteps = 0
    /\ \E running \in BOOLEAN :
        /\ tasksByDate = IF running
                         THEN getDateKey(T0) :>
                                <<[InboundTask(1, "open") EXCEPT
                                      !.sessions = <<[start |-> T0 - 2 * TICK_MS, end |-> 0]>>]>>
                         ELSE <<>>
        /\ activeTaskId = IF running THEN ManualId(1) ELSE NullId
        /\ startTimeRef = IF running THEN T0 - 2 * TICK_MS ELSE 0
    /\ tasks = Get(tasksByDate, getDateKey(T0))
    /\ selectedDate = getDateKey(T0)
    /\ nextId = 0
    /\ store \in InboundDocs
    /\ rejectsLeft = 0
    /\ pendingSave = {}
    /\ importing = NotImporting
    /\ editingSession = NoEdit
    /\ goalsByDate \in LocalGoals
    /\ user = TRUE
    /\ currentTime = now
    /\ last = [op |-> "init", id |-> NullId, write |-> NoWrite]
    /\ layout = NoLayout
    /\ merge = NoMerge

NextInbound == ReceiveSnapshot

\* the snapshot callback on every pair of local state and incoming document
SpecInbound == InitInbound /\ [][NextInbound]_vars

NextDebounce ==
    \/ handleAddTask
    \/ handleTaskToggle
    \/ handleGoalUpdate
    \/ Navigate
    \/ Advance
    \/ TimeoutFires

\* the local changes and the timeout of the debounced save on the clock
SpecDebounce == Init /\ [][NextDebounce]_vars

InitLayout ==
    /\ InitApp
    /\ layout \in {StartLayout(scheduledTasks) : scheduledTasks \in ScheduledInputs}
    /\ merge = NoMerge

NextLayout == AssignColumn

\* the column allocator on every schedule of the bounds
SpecLayout == InitLayout /\ [][NextLayout]_vars

InitMerge ==
    /\ InitApp
    /\ layout = NoLayout
    /\ merge \in {StartMerge(dateTasks, items) :
                      dateTasks \in DayLists(getDateKey(T0)),
                      items \in EventLists(getDateKey(T0))}

NextMerge == ImportAgain

\* the calendar merge on every day list and event list of the bounds
SpecMerge == InitMerge /\ [][NextMerge]_vars

\* a task as another device may have saved it
RemoteTask(n, name) ==
    [id |-> ManualId(n), name |-> name, totalTime |-> 0, sessions |-> <<>>, color |-> 0,
     order |-> 0, estimatedTime |-> 0, scheduledStart |-> 0, scheduledEnd |-> 0]

\* the lists a day holds on this device or in the document: two tasks, the
\* first also under another name
SnapshotLists ==
    {<<>>,
     <<RemoteTask(1, "new")>>,
     <<RemoteTask(1, "renamed")>>,
     <<RemoteTask(2, "new")>>,
     <<RemoteTask(1, "new"), RemoteTask(2, "new")>>}

\* per-day indexes over yesterday and today, a day being absent or holding a list
SnapshotIndexes ==
    LET days == {getDateKey(T0) - 1, getDateKey(T0)}
    IN UNION {[present -> SnapshotLists] : present \in SUBSET days}

\* this device holds one index and the document, written by another device,
\* holds another; no task is running
InitGate ==
    /\ now = T0
    /\ clockSteps = 0
    /\ tasksByDate \in SnapshotIndexes
    /\ tasks = Get(tasksByDate, getDateKey(T0))
    /\ activeTaskId = NullId
    /\ startTimeRef = 0
    /\ selectedDate = getDateKey(T0)
    /\ nextId = 0
    /\ store \in {[exists |-> TRUE, tasks |-> <<>>, tasksByDate |-> byDate,
                    goalsByDate |-> <<>>, tasksDate |-> getDateKey(T0), activeTaskId |-> NullId,
                    activeTaskStartTime |-> 0] : byDate \in SnapshotIndexes}
    /\ rejectsLeft = 0
    /\ pendingSave = {}
    /\ importing = NotImporting
    /\ editingSession = NoEdit
    /\ goalsByDate = <<>>
    /\ user = TRUE
    /\ currentTime = now
    /\ last = [op |-> "init", id |-> NullId, write |-> NoWrite]
    /\ layout = NoLayout
    /\ merge = NoMerge

NextGate == ReceiveSnapshot

\* the snapshot callback on every pair of local and incoming index
SpecGate == InitGate /\ [][NextGate]_vars

----------------------------------------------------------------------------
(* Session state machine: properties *)

\* the open sessions of the per-day index, as <<day, task index, session index>>
OpenSessions(byDate) ==
    {o \in UNION {{<<d, i, j>> : i \in DOMAIN byDate[d],
                                 j \in 1..MaxSessions + 1} : d \in DOMAIN byDate} :
        /\ o[3] \in DOMAIN byDate[o[1]][o[2]].sessions
        /\ byDate[o[1]][o[2]].sessions[o[3]].end = 0}

\* C1: in every reachable state at most one session across the tasks of all
\* days has no end, and the task owning it is the one named by activeTaskId
C1_SingleOpenSessionOfActive ==
    /\ Cardinality(OpenSessions(tasksByDate)) <= 1
    /\ \A o \in OpenSessions(tasksByDate) : tasksByDate[o[1]][o[2]].id = activeTaskId

\* task a of the list is Running since t0: it is the tracked active task and
\* its one open session started at t0
RunningSince(list, a, t0) ==
    /\ activeTaskId = a
    /\ startTimeRef = t0
    /\ t0 # 0
    /\ FindTask(list, a) # <<>>
    /\ \E j \in DOMAIN FindTask(list, a)[1].sessions :
        /\ FindTask(list, a)[1].sessions[j] = [start |-> t0, end |-> 0]
        /\ \A k \in DOMAIN FindTask(list, a)[1].sessions :
            FindTask(list, a)[1].sessions[k].end = 0 => k = j

OpenCount(task) == Cardinality({j \in DOMAIN task.sessions : task.sessions[j].end = 0})

\* the effect C2 states for handleTaskToggle(b) while a is Running since t0
SwitchEffect(a, b, t0) ==
    LET before == tasks
        after == tasks'
        a0 == FindTask(before, a)[1]
        a1 == FindTask(after, a)[1]
        b0 == FindTask(before, b)[1]
        b1 == FindTask(after, b)[1]
    IN /\ FindTask(after, a) # <<>> /\ FindTask(after, b) # <<>>
       /\ Len(a1.sessions) = Len(a0.sessions)
       /\ \A j \in DOMAIN a0.sessions :
            a1.sessions[j] = IF a0.sessions[j].end = 0
                             THEN [start |-> t0, end |-> now]
                             ELSE a0.sessions[j]
       /\ Len(b1.sessions) = Len(b0.sessions) + 1
       /\ b1.sessions[Len(b1.sessions)] = [start |-> now, end |-> 0]
       /\ OpenCount(b1) = 1
       /\ activeTaskId' = b
       /\ startTimeRef' = now
       /\ Get(tasksByDate', selectedDate) = after
       /\ OpenCount(a1) = 0

\* C2: with a and b two tasks of the selected day's working list and a Running
\* since t0, handleTaskToggle(b) at time now closes a's open session as
\* {t0, now}, appends exactly one open session {now} to b and sets
\* activeTaskId to b, in one step and in the working list and the per-day
\* index alike, so that a is closed exactly when b is Running
C2_SwitchIsOneStep ==
    [][\A a \in Ids(tasks) : \A b \in Ids(tasks) :
            (/\ a # b
             /\ RunningSince(tasks, a, startTimeRef)
             /\ handleTaskToggleStart(b))
            => SwitchEffect(a, b, startTimeRef)]_vars

\* a state a switch from a to b has produced, a having run for some time
C2_Witness ==
    /\ last.op = "start"
    /\ activeTaskId = last.id
    /\ \E i \in DOMAIN tasks :
        /\ tasks[i].id # last.id
        /\ Len(tasks[i].sessions) > 0
        /\ tasks[i].sessions[Len(tasks[i].sessions)].end = now
        /\ tasks[i].sessions[Len(tasks[i].sessions)].start < now
    /\ \E i \in DOMAIN tasks :
        /\ tasks[i].id = last.id
        /\ tasks[i].sessions[Len(tasks[i].sessions)] = [start |-> now, end |-> 0]

\* the effect C12 states for handleTaskToggle on the active task
StopEffect(taskId) ==
    /\ Len(tasks') = Len(tasks)
    /\ \A i \in DOMAIN tasks :
        IF tasks[i].id = taskId
        THEN /\ tasks'[i] = [tasks[i] EXCEPT !.sessions = tasks'[i].sessions]
             /\ Len(tasks'[i].sessions) = Len(tasks[i].sessions)
             /\ \A j \in DOMAIN tasks[i].sessions :
                    tasks'[i].sessions[j] =
                        IF tasks[i].sessions[j].end = 0
                        THEN [start |-> tasks[i].sessions[j].start, end |-> now]
                        ELSE tasks[i].sessions[j]
        ELSE tasks'[i] = tasks[i]
    /\ Get(tasksByDate', selectedDate) = tasks'
    /\ \A d \in DOMAIN tasksByDate : d # selectedDate => Get(tasksByDate', d) = tasksByDate[d]
    /\ activeTaskId' = NullId
    /\ startTimeRef' = 0

\* C12: handleTaskToggle on the task named by activeTaskId sets end = now on
\* each of its sessions without end, leaves its closed sessions and every
\* other task as they are, and sets activeTaskId and the start instant to null
C12_StopClosesOnlyActive ==
    [][\A taskId \in Ids(tasks) \cup Ids(Get(tasksByDate, selectedDate)) :
            (activeTaskId = taskId /\ handleTaskToggleStop(taskId)) => StopEffect(taskId)]_vars

\* a stop of a task that ran for some time and had a closed session, beside
\* another task with a session
C12_Witness ==
    /\ last.op = "stop"
    /\ activeTaskId = NullId
    /\ \E i \in DOMAIN tasks :
        /\ tasks[i].id = last.id
        /\ Len(tasks[i].sessions) = 2
        /\ tasks[i].sessions[2].end = now
        /\ tasks[i].sessions[2].start < now
    /\ \E i \in DOMAIN tasks : tasks[i].id # last.id /\ Len(tasks[i].sessions) > 0

\* the session of the selected day's index entry the edit form names, if any
EditedSession ==
    LET list == Get(tasksByDate, selectedDate)
        hit == FindTask(list, editingSession.taskId)
    IN IF hit # <<>> /\ editingSession.sessionIndex \in DOMAIN hit[1].sessions
       THEN <<hit[1].sessions[editingSession.sessionIndex]>>
       ELSE <<>>

\* C13: handleSaveSession changes the index only if the session it names is
\* closed and the new start is before the new end; for a session without end
\* or with start >= end it leaves the index as it is and reports the rejection
C13_SaveOnlyClosedAndOrdered ==
    [][handleSaveSession =>
        IF /\ EditedSession # <<>>
           /\ EditedSession[1].end # 0
           /\ editingSession.startTime < editingSession.endTime
        THEN TRUE
        ELSE /\ tasksByDate' = tasksByDate
             /\ tasks' = tasks
             /\ last'.op = "alert"]_vars

\* C14: handleDeleteTask of the task named by activeTaskId removes it from
\* the selected day's list and sets activeTaskId and the start instant to
\* null; of another task it removes that task and leaves the active marker
\* and every remaining task as they are
C14_DeleteClearsOwnMarker ==
    [][handleDeleteTask =>
        LET taskId == last'.id
        IN /\ taskId \notin Ids(tasks')
           /\ tasks' = SelectSeq(tasks, LAMBDA task : task.id # taskId)
           /\ Get(tasksByDate', selectedDate) = tasks'
           /\ \A d \in DOMAIN tasksByDate :
                d # selectedDate => Get(tasksByDate', d) = tasksByDate[d]
           /\ IF activeTaskId = taskId
              THEN activeTaskId' = NullId /\ startTimeRef' = 0
              ELSE activeTaskId' = activeTaskId /\ startTimeRef' = startTimeRef]_vars

\* the running task has been deleted (the document still names it) and
\* another task with a session remains
C14_Witness ==
    /\ last.op = "delete"
    /\ activeTaskId = NullId
    /\ startTimeRef = 0
    /\ store.exists
    /\ store.activeTaskId = last.id
    /\ last.id \notin Ids(tasks)
    /\ \E i \in DOMAIN tasks : Len(tasks[i].sessions) > 0

\* the write the handler of this step issued reached the document in the step
WroteNow ==
    /\ last'.write.issued
    /\ store' = MergeDoc(store, last'.write)

\* the selected day's list in the write of this step
WrittenDay == Get(last'.write.tasksByDate, selectedDate)

\* C15: stop, start, task delete, day-clear and logout each issue their write
\* within the handler, and the written snapshot holds the change: the closed
\* or opened session with the active marker, the list without the removed
\* task, the emptied day, and at logout the working list and marker as they
\* were; the written day is the day the handler left in the working list and
\* in the index
C15_HandlersWriteTheirChange ==
    [][(handleTaskToggle \/ handleDeleteTask \/ ClearDay \/ handleLogout) =>
        /\ WroteNow
        /\ last'.op \in {"stop", "start", "delete", "clear"} =>
              WrittenDay = Get(tasksByDate', selectedDate)
        /\ last'.op = "stop" =>
              /\ WrittenDay = tasks'
              /\ \A i \in DOMAIN WrittenDay :
                    WrittenDay[i].id = last'.id => ~HasOpen(WrittenDay[i])
              /\ last'.write.hasActive
              /\ last'.write.activeTaskId = NullId
              /\ last'.write.activeTaskStartTime = 0
        /\ last'.op = "start" =>
              /\ WrittenDay = tasks'
              /\ \A i \in DOMAIN WrittenDay :
                    WrittenDay[i].id = last'.id =>
                        /\ HasOpen(WrittenDay[i])
                        /\ WrittenDay[i].sessions[Len(WrittenDay[i].sessions)] =
                              [start |-> now, end |-> 0]
              /\ last'.write.hasActive
              /\ last'.write.activeTaskId = last'.id
              /\ last'.write.activeTaskStartTime = now
        /\ last'.op = "delete" =>
              /\ WrittenDay = tasks'
              /\ last'.id \notin Ids(WrittenDay)
        /\ last'.op = "clear" => WrittenDay = <<>>
        /\ last'.op \in {"logout", "logoutFailed"} =>
              /\ WrittenDay = tasks
              /\ last'.write.hasActive
              /\ last'.write.activeTaskId = activeTaskId
              /\ last'.write.activeTaskStartTime = startTimeRef
        /\ last'.op \in {"stop", "start", "delete", "clear", "logout", "logoutFailed"}]_vars

\* the user logged out while a task was running, and the document holds the
\* running task
C15_Witness ==
    /\ ~user
    /\ last.op = "logout"
    /\ store.exists
    /\ store.activeTaskId # NullId
    /\ \E i \in DOMAIN Get(store.tasksByDate, selectedDate) :
          /\ Get(store.tasksByDate, selectedDate)[i].id = store.activeTaskId
          /\ HasOpen(Get(store.tasksByDate, selectedDate)[i])

\* the write of this step was rejected by the store
Rejected == rejectsLeft' < rejectsLeft

\* the local state after this step is the one the handler computes
LocalAsIfWritten ==
    /\ goalsByDate' = goalsByDate
    /\ CASE last'.op = "stop" -> StopEffect(last'.id)
         [] last'.op = "start" ->
              /\ tasks' = StartTask(tasks, activeTaskId, startTimeRef, last'.id, now)
              /\ tasksByDate' = Put(tasksByDate, selectedDate, tasks')
              /\ activeTaskId' = last'.id
              /\ startTimeRef' = now
         [] last'.op = "delete" ->
              /\ tasks' = SelectSeq(tasks, LAMBDA task : task.id # last'.id)
              /\ tasksByDate' = Put(tasksByDate, selectedDate, tasks')
              /\ IF activeTaskId = last'.id
                 THEN activeTaskId' = NullId /\ startTimeRef' = 0
                 ELSE activeTaskId' = activeTaskId /\ startTimeRef' = startTimeRef
         [] last'.op = "clear" ->
              /\ tasks' = <<>>
              /\ tasksByDate' = Put(tasksByDate, selectedDate, <<>>)
              /\ activeTaskId' = NullId
              /\ startTimeRef' = 0
         [] last'.op = "debounce" ->
              UNCHANGED <<tasks, tasksByDate, activeTaskId, startTimeRef>>
         [] OTHER -> FALSE

\* C16: when saveUserData throws, the handler still completes, the document
\* is untouched, and the task index, the goals and the active marker are what
\* the handler computes when the write succeeds
C16_RejectedWriteKeepsLocalResult ==
    [][Rejected =>
        /\ last'.write.issued
        /\ store' = store
        /\ LocalAsIfWritten]_vars

\* a stop whose write was rejected: the task is stopped locally and the
\* document still holds it running
C16_Witness ==
    /\ rejectsLeft < MaxRejects
    /\ last.op = "stop"
    /\ activeTaskId = NullId
    /\ store.exists
    /\ store.activeTaskId = last.id
    /\ \A i \in DOMAIN tasks : ~HasOpen(tasks[i])
    /\ \E i \in DOMAIN tasks : tasks[i].id = last.id /\ Len(tasks[i].sessions) > 0

\* the document does not hold the local tasks
StoreLacksTasks ==
    \/ ~store.exists
    \/ store.tasksByDate # Put(tasksByDate, selectedDate, tasks)

\* C17: a write has been rejected and the document still lacks the local
\* tasks; the debounce cycle that the next local change (here a goal edit)
\* starts issues a write that carries the local snapshot
C17_DebounceResendsRejected ==
    [][(/\ rejectsLeft < MaxRejects
        /\ last.op = "goal"
        /\ StoreLacksTasks
        /\ DebounceFire)
       => /\ last'.write.issued
          /\ last'.write.tasksByDate = Put(tasksByDate, selectedDate, tasks)
          /\ last'.write.goalsByDate = goalsByDate
          /\ last'.write.activeTaskId = activeTaskId]_vars

\* C18: when the listener reports an error or the document is absent, the
\* callback gets null, the working list and the active marker are cleared,
\* and the per-day task index and the per-day goals stay as they are
C18_NullSnapshotKeepsIndexAndGoals ==
    [][(SubscriptionError \/ (ReceiveSnapshot /\ ~store.exists)) =>
        /\ tasks' = <<>>
        /\ activeTaskId' = NullId
        /\ startTimeRef' = 0
        /\ tasksByDate' = tasksByDate
        /\ goalsByDate' = goalsByDate]_vars

\* C19: once the user is logged out the listener is unsubscribed and both
\* intervals are cleared: no snapshot callback, no guard tick and no
\* now-marker tick runs any more
C19_NothingRunsAfterLogout ==
    [][~user => ~(ReceiveSnapshot \/ SubscriptionError \/ GuardTick \/ CurrentTimeTick)]_vars

\* C20: an import whose fetch is answered with 401 asks for a new
\* authorization and leaves the per-day index, the working list, the goals,
\* the active marker and the document as they are
C20_UnauthorizedImportChangesNothing ==
    [][ImportUnauthorized =>
        /\ last'.op \in {"reauthorized", "authExpired"}
        /\ tasksByDate' = tasksByDate
        /\ tasks' = tasks
        /\ goalsByDate' = goalsByDate
        /\ activeTaskId' = activeTaskId
        /\ startTimeRef' = startTimeRef
        /\ store' = store]_vars

\* the 401 came while a task was running and the day had a goal
C20_Witness ==
    /\ last.op \in {"reauthorized", "authExpired"}
    /\ ~importing.active
    /\ activeTaskId # NullId
    /\ \E i \in DOMAIN tasks : tasks[i].id = activeTaskId /\ HasOpen(tasks[i])
    /\ Get(tasksByDate, selectedDate) = tasks
    /\ selectedDate \in DOMAIN goalsByDate

\* no task id under two day keys of the index
OneDayPerId(byDate) ==
    \A d1 \in DOMAIN byDate : \A d2 \in DOMAIN byDate :
        d1 # d2 => Ids(byDate[d1]) \cap Ids(byDate[d2]) = {}

\* C21: each task id is under at most one day key of the per-day index, on
\* this device and in the document, also after a saved session edit and
\* after the legacy migration of a received snapshot
C21_OneDayPerTask ==
    /\ OneDayPerId(tasksByDate)
    /\ store.exists => OneDayPerId(store.tasksByDate)

\* the task the incoming marker names has an open session in the incoming
\* list of today, after migration
MarkerIsRunning ==
    \E i \in DOMAIN Get(Migrate(store), Today) :
        /\ Get(Migrate(store), Today)[i].id = store.activeTaskId
        /\ HasOpen(Get(Migrate(store), Today)[i])

\* C22: a snapshot recorded under another day clears the active marker and
\* the start instant; one recorded under today sets them to the snapshot's
\* marker and start instant when the named task has a session without end in
\* the migrated list of today, and clears them otherwise
C22_SnapshotReconcilesMarker ==
    [][(ReceiveSnapshot /\ store.exists) =>
        IF store.tasksDate = Today /\ store.activeTaskId # NullId /\ MarkerIsRunning
        THEN /\ activeTaskId' = store.activeTaskId
             /\ startTimeRef' = store.activeTaskStartTime
        ELSE /\ activeTaskId' = NullId
             /\ startTimeRef' = 0]_vars

\* a snapshot of today has set the marker to its running task, which is not
\* the task that ran on this device
C22_Witness ==
    /\ last.op = "snapshot"
    /\ store.tasksDate = Today
    /\ activeTaskId = ManualId(2)
    /\ startTimeRef = store.activeTaskStartTime
    /\ \E i \in DOMAIN Get(tasksByDate, Today) :
          Get(tasksByDate, Today)[i].id = activeTaskId /\ HasOpen(Get(tasksByDate, Today)[i])

\* C23: after a non-null snapshot the goals of a day are the local goals of
\* before the receipt where the day had local goals, and the incoming goals
\* of the day otherwise
C23_LocalGoalsWin ==
    [][(ReceiveSnapshot /\ store.exists) =>
        /\ DOMAIN goalsByDate' = (DOMAIN goalsByDate) \cup (DOMAIN store.goalsByDate)
        /\ \A k \in DOMAIN goalsByDate' :
              goalsByDate'[k] = IF k \in DOMAIN goalsByDate THEN goalsByDate[k]
                                ELSE store.goalsByDate[k]]_vars

\* the legacy list of the document has to be copied under its recorded day
LegacyApplies ==
    /\ store.tasks # <<>>
    /\ store.tasksDate # 0
    /\ \/ store.tasksDate \notin DOMAIN store.tasksByDate
       \/ store.tasksByDate[store.tasksDate] = <<>>

\* the incoming index with the legacy list copied exactly in that case
MigratedIndex ==
    IF LegacyApplies
    THEN [k \in (DOMAIN store.tasksByDate) \cup {store.tasksDate} |->
             IF k = store.tasksDate THEN store.tasks ELSE store.tasksByDate[k]]
    ELSE store.tasksByDate

\* C24: the index the callback takes over from a snapshot is the incoming
\* index with the legacy list copied under the recorded day exactly when the
\* list is non-empty, a day is recorded and that day is absent or empty; a
\* non-empty day keeps its incoming list
C24_LegacyFillsOnlyEmptyDay ==
    [][(ReceiveSnapshot /\ store.exists /\ tasksByDate' # tasksByDate) =>
        tasksByDate' = MigratedIndex]_vars

\* the legacy list was copied under today, which the document held empty or
\* not at all
C24_Witness ==
    /\ last.op = "snapshot"
    /\ LegacyApplies
    /\ store.tasksDate = Today
    /\ tasksByDate # store.tasksByDate
    /\ Get(tasksByDate, Today) = store.tasks

\* this step changes a value the save effect depends on
LocalChange ==
    <<tasks, tasksByDate, goalsByDate, activeTaskId, selectedDate>>' #
        <<tasks, tasksByDate, goalsByDate, activeTaskId, selectedDate>>

\* C25: every change of the working list, the index, the goals, the active
\* marker or the selected day leaves exactly one timeout pending, due one
\* delay after the change; never more than one timeout is pending; and the
\* timeout that runs is due, none set by a later change being pending
C25_DebounceRestartsOnChange ==
    /\ [][(user /\ LocalChange) => pendingSave' = {now + SAVE_DELAY}]_vars
    /\ [](Cardinality(pendingSave) <= 1)
    /\ [][TimeoutFires => /\ \A due \in pendingSave : now >= due
                          /\ pendingSave' = {}]_vars

\* the timeout set by a goal edit has run one delay later and has written
\* the goals
C25_Witness ==
    /\ last.op = "debounce"
    /\ last.write.issued
    /\ now >= T0 + SAVE_DELAY
    /\ pendingSave = {}
    /\ last.write.goalsByDate = goalsByDate
    /\ goalsByDate # <<>>

\* the working list and the index entry of the selected day have the same
\* number of tasks and the same ids, and the selected day is a key of the index
NoMaterialChange ==
    /\ Len(tasks) = Len(Get(tasksByDate, selectedDate))
    /\ Ids(tasks) = Ids(Get(tasksByDate, selectedDate))
    /\ selectedDate \in DOMAIN tasksByDate

\* C26: when the debounce timeout fires with no material change nothing is
\* written; otherwise one write is issued that carries the current snapshot
C26_DebounceWritesOnMaterialChange ==
    [][DebounceFire =>
        IF NoMaterialChange
        THEN /\ ~last'.write.issued
             /\ store' = store
        ELSE /\ last'.write.issued
             /\ last'.write.tasks = <<>>
             /\ last'.write.tasksByDate = Put(tasksByDate, selectedDate, tasks)
             /\ last'.write.goalsByDate = goalsByDate
             /\ last'.write.tasksDate = Today
             /\ last'.write.hasActive
             /\ last'.write.activeTaskId = activeTaskId
             /\ last'.write.activeTaskStartTime = startTimeRef
             /\ store' = MergeDoc(store, last'.write)]_vars

\* the timeout has fired without a write while the working list held tasks
\* whose sessions differ from those of the index
C26_Witness ==
    /\ last.op = "debounce"
    /\ ~last.write.issued
    /\ tasks # <<>>
    /\ tasks # Get(tasksByDate, selectedDate)

\* the handler that ran last wrote, and the document holds that write
LastWriteStored ==
    /\ last.write.issued
    /\ store.exists
    /\ MergeDoc(store, last.write) = store

\* C27: when the document this device has just written is delivered back,
\* the callback changes no task of the working list or of the index, and the
\* debounced save that follows finds no material change and writes nothing
C27_EchoIsQuiet ==
    [][(LastWriteStored /\ ReceiveSnapshot) =>
        /\ tasks' = tasks
        /\ \A d \in (DOMAIN tasksByDate) \cup (DOMAIN tasksByDate') :
              Get(tasksByDate', d) = Get(tasksByDate, d)
        /\ NoMaterialChange']_vars

\* the click starts a task that is not the tracked one and that already
\* owns a session without end
StartsOverStray(taskId) ==
    /\ handleTaskToggleStart(taskId)
    /\ \E i \in DOMAIN tasks : tasks[i].id = taskId /\ HasOpen(tasks[i])

\* C28: a start of a task that is not the tracked one and already owns an
\* open session closes that session at now and appends a fresh one, so the
\* task then has exactly one open session, started at now, and is the active
\* task, whether the marker named another task or none
C28_StartClosesStraySession ==
    [][\A taskId \in Ids(tasks) :
        StartsOverStray(taskId) =>
            /\ activeTaskId' = taskId
            /\ \A i \in DOMAIN tasks :
                  tasks[i].id = taskId =>
                    /\ OpenCount(tasks'[i]) = 1
                    /\ Len(tasks'[i].sessions) = Len(tasks[i].sessions) + 1
                    /\ tasks'[i].sessions[Len(tasks'[i].sessions)] = [start |-> now, end |-> 0]
                    /\ \A j \in DOMAIN tasks[i].sessions :
                          tasks[i].sessions[j].end = 0 => tasks'[i].sessions[j].end = now]_vars

\* the click lands on the tracked task while it owns an open session
ClickOnRunning(taskId) ==
    /\ activeTaskId = taskId
    /\ \E i \in DOMAIN tasks : tasks[i].id = taskId /\ HasOpen(tasks[i])
    /\ (handleTaskToggleStop(taskId) \/ handleTaskToggleStart(taskId))

AppendedByImport(dateTasks, finalDateTasks) ==
    {i \in DOMAIN finalDateTasks : finalDateTasks[i].id \notin Ids(dateTasks)}

\* C30: every task a calendar import appends gets an order strictly greater
\* than the order of every task the day already held, and the tasks appended
\* by one import get increasing orders, whatever adds, deletes and imports
\* came before
C30_ImportedOrderAfterMaximum ==
    [][(ImportCommit /\ tasksByDate' # tasksByDate) =>
        LET dateTasks == Get(importing.tasksByDate, importing.selectedDate)
            finalDateTasks == Get(tasksByDate', importing.selectedDate)
            appended == AppendedByImport(dateTasks, finalDateTasks)
        IN /\ \A i \in appended : \A j \in DOMAIN dateTasks :
                 finalDateTasks[i].order > dateTasks[j].order
           /\ \A i, k \in appended :
                 i < k => finalDateTasks[i].order < finalDateTasks[k].order]_vars

\* the edit form holds a time input that is not a well-formed HH:MM time
MalformedTimeInput ==
    /\ editingSession.open
    /\ (editingSession.startTime = EmptyTime \/ editingSession.endTime = EmptyTime)

\* C31: handleSaveSession with a start or end input that is not a well-formed
\* time leaves the task index unchanged, writes nothing to the store and
\* reports the rejection
C31_MalformedTimeRejected ==
    [][(MalformedTimeInput /\ handleSaveSession) =>
        /\ tasksByDate' = tasksByDate
        /\ store' = store
        /\ ~last'.write.issued
        /\ last'.op = "alert"]_vars

\* a day's goals record has three goals in each quadrant, each with a rate
\* in 0..100
WellFormedGoals(goals) ==
    \A quadrant \in {"quadrant1", "quadrant2"} :
        /\ Len(goals[quadrant]) = 3
        /\ \A i \in DOMAIN goals[quadrant] :
              goals[quadrant][i].achievementRate \in 0..100

\* the goals a day shows: getGoalsForDate
GoalsForDate(byDate, d) == IF d \in DOMAIN byDate THEN byDate[d] ELSE createDefaultGoals

\* the step is a goal edit that addresses the goal at index of quadrant
EditsGoal(quadrant, index) ==
    \E input \in GoalInputs :
        /\ input[1] = quadrant
        /\ input[2] = index
        /\ GoalUpdate(input[1], input[2], input[3], input[4])

\* C32: in every reachable state each day's goals record has exactly three
\* goals in each of its two quadrants and every achievementRate is in 0..100,
\* after goal edits with any number, previous-day copies and snapshot merges;
\* and a goal edit changes only the addressed goal of the selected day
C32_GoalsWellFormed ==
    /\ [](\A d \in DOMAIN goalsByDate : WellFormedGoals(goalsByDate[d]))
    /\ [][\A quadrant \in {"quadrant1", "quadrant2"}, index \in 1..3 :
            EditsGoal(quadrant, index) =>
                /\ \A d \in (DOMAIN goalsByDate) \cup (DOMAIN goalsByDate') :
                      d # selectedDate =>
                        /\ d \in DOMAIN goalsByDate
                        /\ d \in DOMAIN goalsByDate'
                        /\ goalsByDate'[d] = goalsByDate[d]
                /\ \A q \in {"quadrant1", "quadrant2"}, i \in 1..3 :
                      <<q, i>> # <<quadrant, index>> =>
                        goalsByDate'[selectedDate][q][i] =
                            GoalsForDate(goalsByDate, selectedDate)[q][i]]_vars

\* yesterday's goals, edited with a rate over the range, have been copied to
\* today and the text of a goal of today has then been edited
C32_Witness ==
    /\ last.op = "goal"
    /\ selectedDate = Today
    /\ (Today - 1) \in DOMAIN goalsByDate
    /\ Today \in DOMAIN goalsByDate
    /\ goalsByDate[Today - 1].quadrant1[1].achievementRate = 100
    /\ goalsByDate[Today].quadrant1[1].achievementRate = 100
    /\ goalsByDate[Today].quadrant1[3].text = "a"
    /\ goalsByDate[Today - 1].quadrant1[3].text = ""
    /\ store.exists
    /\ Today \in DOMAIN store.goalsByDate

\* C33: in every reachable state a non-null activeTaskId names a task that
\* exists in the local per-day index and owns a session without end
C33_MarkerNamesRunningTask ==
    activeTaskId # NullId =>
        \E d \in DOMAIN tasksByDate : \E i \in DOMAIN tasksByDate[d] :
            /\ tasksByDate[d][i].id = activeTaskId
            /\ HasOpen(tasksByDate[d][i])

\* C34: an import that commits keeps what the user did to the day while the
\* fetch was in flight: every task the day holds at the commit is still
\* there with the same sessions, and no task the user deleted comes back
C34_ImportKeepsInterleavedChange ==
    [][(ImportCommit /\ tasksByDate' # tasksByDate) =>
        LET before == Get(tasksByDate, importing.selectedDate)
            after == Get(tasksByDate', importing.selectedDate)
        IN /\ \A i \in DOMAIN before : \E j \in DOMAIN after :
                 /\ after[j].id = before[i].id
                 /\ after[j].sessions = before[i].sessions
           /\ \A j \in DOMAIN after :
                 after[j].id \in Ids(before) \/ IsCalendarId(after[j].id)]_vars

\* the latest local operation is a start or a stop and the document is an
\* older one: it does not hold what that operation wrote
StaleAfterToggle ==
    /\ last.op \in {"start", "stop"}
    /\ store.exists
    /\ MergeDoc(store, last.write) # store

\* C35: a snapshot written before the latest local start or stop and
\* delivered after it leaves the active marker as that operation set it: it
\* neither restores a task stopped locally nor clears a task started locally
C35_StaleSnapshotKeepsMarker ==
    [][(StaleAfterToggle /\ ReceiveSnapshot) =>
        /\ activeTaskId' = activeTaskId
        /\ startTimeRef' = startTimeRef]_vars

\* the listener has just delivered an absent snapshot while the local index
\* holds tasks
AbsentDelivered ==
    /\ last.op = "snapshotError"
    /\ store.exists
    /\ \E d \in DOMAIN tasksByDate : tasksByDate[d] # <<>>

\* C36: after an absent snapshot with a non-empty local index, the debounced
\* save replaces no non-empty day of the document with an empty list and
\* does not replace stored goals with an empty record
C36_AbsentSnapshotWipesNothing ==
    [][(AbsentDelivered /\ DebounceFire) =>
        /\ \A d \in DOMAIN store.tasksByDate :
              store.tasksByDate[d] # <<>> =>
                /\ d \in DOMAIN store'.tasksByDate
                /\ store'.tasksByDate[d] # <<>>
        /\ store.goalsByDate # <<>> => store'.goalsByDate # <<>>]_vars

\* C37: once the user is logged out the local per-day index holds no task
C37_LogoutEmptiesIndex ==
    ~user => \A d \in DOMAIN tasksByDate : tasksByDate[d] = <<>>

\* a handler of the task panel or a date button runs
HandlerStep ==
    \/ handleAddTask
    \/ handleTaskToggle
    \/ handleDeleteTask
    \/ handleResetToday
    \/ ClearDay
    \/ Navigate

\* C38: after every handler the working list is the index entry of the
\* selected day, with the same tasks and the same sessions
C38_WorkingListIsIndexEntry ==
    [][HandlerStep => tasks' = Get(tasksByDate', selectedDate')]_vars

\* the per-day lists and goals of the document, none for a missing document
StoredIndex == IF store.exists THEN store.tasksByDate ELSE <<>>
StoredGoals == IF store.exists THEN store.goalsByDate ELSE <<>>

\* the document holds the local per-day task index and the local goals
Synced ==
    /\ \A d \in (DOMAIN tasksByDate) \cup (DOMAIN StoredIndex) :
          Get(StoredIndex, d) = Get(tasksByDate, d)
    /\ DOMAIN StoredGoals = DOMAIN goalsByDate
    /\ \A d \in DOMAIN goalsByDate : StoredGoals[d] = goalsByDate[d]

\* the latest step is the debounced save: no local mutation is outstanding
NoFurtherChange == last.op = "debounce"

\* C39: when the local mutations (task add, goal edit, previous-day goal
\* copy, calendar import) have come to an end and no write fails, the
\* document eventually holds the local per-day task index and goals
C39_StoreCatchesUp ==
    <>[]NoFurtherChange => <>[]Synced

\* C40: in every document the store holds, a non-null activeTaskId names a
\* task of the list stored under the recorded day that has a session without
\* end there
C40_StoredMarkerNamesRunningTask ==
    (store.exists /\ store.activeTaskId # NullId) =>
        \E i \in DOMAIN Get(store.tasksByDate, store.tasksDate) :
            /\ Get(store.tasksByDate, store.tasksDate)[i].id = store.activeTaskId
            /\ HasOpen(Get(store.tasksByDate, store.tasksDate)[i])

\* C3: a guard tick that observes now - start >= 9h59m59s closes every open
\* session of the active task with end = now, whatever day is selected,
\* clears activeTaskId and the start instant and issues a store write carrying
\* activeTaskId = null; a tick that observes less changes nothing
C3_AutoStopTick ==
    [][GuardTick =>
        IF now - startTimeRef >= MAX_DURATION
        THEN /\ \A d \in DOMAIN tasksByDate : \A i \in DOMAIN tasksByDate[d] :
                    tasksByDate[d][i].id = activeTaskId =>
                        /\ d \in DOMAIN tasksByDate'
                        /\ i \in DOMAIN tasksByDate'[d]
                        /\ tasksByDate'[d][i].sessions =
                               CloseOpen(tasksByDate[d][i].sessions, now)
             /\ activeTaskId' = NullId
             /\ startTimeRef' = 0
             /\ last'.write.issued
             /\ last'.write.hasActive
             /\ last'.write.activeTaskId = NullId
        ELSE UNCHANGED vars]_vars

----------------------------------------------------------------------------
(* Calendar merge: properties *)

\* the scheduling fields the calendar gives an event
EventStart(event) ==
    IF event.kind = "timed" THEN event.start ELSE DayStart(event.start) + 9 * HOUR_MS

EventEnd(event) ==
    IF event.kind = "timed" THEN event.end ELSE DayStart(event.start) + 17 * HOUR_MS

\* C4: importing one event list twice yields the day list of importing it
\* once: the same tasks with the same sessions and totalTime, no id twice, and
\* every task of an event scheduled as the event is
C4_ImportTwiceIsImportOnce ==
    merge.runs >= 2 =>
        /\ merge.result = merge.once
        /\ \A i, j \in DOMAIN merge.result :
            i # j => merge.result[i].id # merge.result[j].id
        /\ \A k \in DOMAIN merge.items :
            merge.items[k].kind # "nostart" =>
                \E i \in DOMAIN merge.result :
                    /\ merge.result[i].id = CalendarId(merge.items[k].id)
                    /\ merge.result[i].scheduledStart = EventStart(merge.items[k])
                    /\ merge.result[i].scheduledEnd = EventEnd(merge.items[k])
                    /\ merge.result[i].estimatedTime =
                           EventEnd(merge.items[k]) - EventStart(merge.items[k])

\* two imports of a list that reschedules a task worked on and brings a new one
C4_Witness ==
    /\ merge.runs = 2
    /\ Len(merge.result) > Len(merge.dateTasks)
    /\ \E i \in DOMAIN merge.dateTasks :
        /\ IsCalendarId(merge.dateTasks[i].id)
        /\ merge.result[i].id = merge.dateTasks[i].id
        /\ merge.result[i].scheduledStart # merge.dateTasks[i].scheduledStart
        /\ merge.result[i].sessions = merge.dateTasks[i].sessions
        /\ Len(merge.result[i].sessions) > 0

\* the events of the list that have a start and whose task the day lacks
NewEvents ==
    {k \in DOMAIN merge.items :
        /\ merge.items[k].kind # "nostart"
        /\ CalendarId(merge.items[k].id) \notin Ids(merge.dateTasks)}

\* C11: an import gives every event with a start whose id the day lacks
\* exactly one task "calendar-" + id, without sessions, totalTime 0, scheduled
\* at the event's start and end with estimatedTime = end - start, an all-day
\* event at 09:00-17:00 of its date with estimatedTime 8 h; one event e1
\* 09:00-10:00 into an empty day gives the one task calendar-e1 of 1 h
C11_NewEventBecomesOneTask ==
    merge.runs >= 1 =>
        /\ \A k \in NewEvents :
            LET event == merge.items[k]
                made == {i \in DOMAIN merge.once : merge.once[i].id = CalendarId(event.id)}
            IN /\ Cardinality(made) = 1
               /\ \A i \in made :
                    /\ i > Len(merge.dateTasks)
                    /\ merge.once[i].sessions = <<>>
                    /\ merge.once[i].totalTime = 0
                    /\ event.kind = "timed" =>
                        /\ merge.once[i].scheduledStart = event.start
                        /\ merge.once[i].scheduledEnd = event.end
                        /\ merge.once[i].estimatedTime = event.end - event.start
                    /\ event.kind = "allday" =>
                        /\ merge.once[i].scheduledStart = event.start * DAY_MS + 9 * HOUR_MS
                        /\ merge.once[i].scheduledEnd = event.start * DAY_MS + 17 * HOUR_MS
                        /\ merge.once[i].estimatedTime = 8 * HOUR_MS
        /\ Len(merge.once) = Len(merge.dateTasks) + Cardinality(NewEvents)
        /\ (/\ merge.dateTasks = <<>>
            /\ Len(merge.items) = 1
            /\ merge.items[1].kind = "timed"
            /\ merge.items[1].end - merge.items[1].start = HOUR_MS)
           => /\ Len(merge.once) = 1
              /\ merge.once[1].id = CalendarId(merge.items[1].id)
              /\ merge.once[1].estimatedTime = HOUR_MS
              /\ merge.once[1].sessions = <<>>

\* one import of a timed and an all-day event into a day that has a task
C11_Witness ==
    /\ merge.runs = 1
    /\ Len(merge.dateTasks) > 0
    /\ \E k \in NewEvents : merge.items[k].kind = "timed"
    /\ \E k \in NewEvents : merge.items[k].kind = "allday"
    /\ Len(merge.once) = Len(merge.dateTasks) + 2

\* C5: an import that commits leaves every task of the target day in place
\* with its id, name, color, order, sessions and totalTime, leaves a manual
\* task as it is, and puts the tasks it adds after the ones that were there
C5_ImportKeepsDay ==
    [][ImportCommit =>
        LET before == Get(tasksByDate, importing.selectedDate)
            after == Get(tasksByDate', importing.selectedDate)
        IN /\ Len(after) >= Len(before)
           /\ \A i \in DOMAIN before :
                /\ after[i].id = before[i].id
                /\ after[i].name = before[i].name
                /\ after[i].color = before[i].color
                /\ after[i].order = before[i].order
                /\ after[i].sessions = before[i].sessions
                /\ after[i].totalTime = before[i].totalTime
                /\ ~IsCalendarId(before[i].id) => after[i] = before[i]
           /\ \A i \in DOMAIN after :
                i > Len(before) => IsCalendarId(after[i].id) /\ after[i].id \notin Ids(before)
    ]_vars

----------------------------------------------------------------------------
(* Remote sync: properties *)

\* the days either side of a snapshot names
SnapshotDays == (DOMAIN tasksByDate) \cup (DOMAIN Migrate(store))

\* C6: a snapshot leaves the local list of every day unchanged whose incoming
\* id set equals the local one, whatever it holds for that day's fields and
\* for other days
C6_EqualIdsKeepLocalDay ==
    [][(ReceiveSnapshot /\ store.exists) =>
        \A D \in SnapshotDays :
            Ids(Get(Migrate(store), D)) = Ids(Get(tasksByDate, D))
                => Get(tasksByDate', D) = Get(tasksByDate, D)]_vars

\* C7: a snapshot makes the local list of every day equal to the incoming one
\* whose incoming id set differs from the local one
C7_DifferentIdsTakeIncomingDay ==
    [][(ReceiveSnapshot /\ store.exists) =>
        \A D \in SnapshotDays :
            Ids(Get(Migrate(store), D)) # Ids(Get(tasksByDate, D))
                => Get(tasksByDate', D) = Get(Migrate(store), D)]_vars

----------------------------------------------------------------------------
(* Schedule view: properties *)

\* the allocator has assigned every task of a schedule
LayoutDone ==
    /\ Len(layout.allTasksSorted) > 0
    /\ layout.next > Len(layout.allTasksSorted)

\* globalColumnAssignments.get(taskId)
ColumnOf(taskId) ==
    layout.globalColumnAssignments[
        CHOOSE i \in DOMAIN layout.globalColumnAssignments :
            layout.globalColumnAssignments[i].taskId = taskId].column

\* the half-open intervals [start, end) of two tasks share an instant
SharesInstant(a, b) ==
    (IF a.start > b.start THEN a.start ELSE b.start) < (IF a.end < b.end THEN a.end ELSE b.end)

\* the pairs of tasks drawn in one column over a common instant
ClashingPairs ==
    {p \in (DOMAIN layout.allTasksSorted) \X (DOMAIN layout.allTasksSorted) :
        /\ p[1] < p[2]
        /\ ColumnOf(layout.allTasksSorted[p[1]].taskId) =
               ColumnOf(layout.allTasksSorted[p[2]].taskId)
        /\ SharesInstant(layout.allTasksSorted[p[1]], layout.allTasksSorted[p[2]])}

\* the tasks sorted before position k that share an instant with the task at k
EarlierSharing(k) ==
    {j \in 1..(k - 1) : SharesInstant(layout.allTasksSorted[j], layout.allTasksSorted[k])}

\* the largest number of tasks active at one instant
Depth ==
    LET activeAt(x) == {k \in DOMAIN layout.allTasksSorted :
                            /\ layout.allTasksSorted[k].start <= x
                            /\ x < layout.allTasksSorted[k].end}
        counts == {Cardinality(activeAt(layout.allTasksSorted[k].start)) :
                       k \in DOMAIN layout.allTasksSorted}
    IN CHOOSE n \in counts : \A m \in counts : m <= n

\* C8: every scheduled task has exactly one column of 0, 1, 2; two tasks of
\* one column share an instant only in column 0 and only if one of them was
\* forced there, every column holding an earlier task that shares an instant
\* with it
C8_OneColumnEach ==
    LayoutDone =>
        /\ \A k \in DOMAIN layout.allTasksSorted :
            /\ Cardinality({i \in DOMAIN layout.globalColumnAssignments :
                   layout.globalColumnAssignments[i].taskId =
                       layout.allTasksSorted[k].taskId}) = 1
            /\ ColumnOf(layout.allTasksSorted[k].taskId) \in {0, 1, 2}
            /\ Cardinality({c \in DOMAIN layout.columnTasks :
                   \E i \in DOMAIN layout.columnTasks[c] :
                       layout.columnTasks[c][i] = layout.allTasksSorted[k]}) = 1
        /\ \A p \in ClashingPairs :
            /\ ColumnOf(layout.allTasksSorted[p[1]].taskId) = 0
            /\ \/ layout.allTasksSorted[p[1]].taskId \in layout.forced
               \/ layout.allTasksSorted[p[2]].taskId \in layout.forced
        /\ \A k \in DOMAIN layout.allTasksSorted :
            layout.allTasksSorted[k].taskId \in layout.forced =>
                /\ ColumnOf(layout.allTasksSorted[k].taskId) = 0
                /\ \A c \in {0, 1, 2} : \E j \in EarlierSharing(k) :
                       ColumnOf(layout.allTasksSorted[j].taskId) = c

\* a finished layout with a task forced into column 0 over another one
C8_Witness ==
    /\ LayoutDone
    /\ layout.forced # {}
    /\ ClashingPairs # {}
    /\ \E k \in DOMAIN layout.allTasksSorted :
        ColumnOf(layout.allTasksSorted[k].taskId) = 2

\* C9: with at most 3 tasks active at any instant no two tasks of one column
\* share an instant and none is forced; a task is forced only if at least
\* three tasks sorted before it share an instant with it
C9_ThreeDeepNeverClash ==
    LayoutDone =>
        /\ Depth <= 3 => ClashingPairs = {} /\ layout.forced = {}
        /\ \A k \in DOMAIN layout.allTasksSorted :
            layout.allTasksSorted[k].taskId \in layout.forced =>
                Cardinality(EarlierSharing(k)) >= 3

\* a finished layout of four tasks, three of them active at once, one of
\* them reusing a column
C9_Witness ==
    /\ LayoutDone
    /\ Depth = 3
    /\ Len(layout.allTasksSorted) = 4
    /\ ClashingPairs = {}
    /\ \E k \in DOMAIN layout.allTasksSorted :
        ColumnOf(layout.allTasksSorted[k].taskId) = 2

\* the schedule is four tasks of one identical interval
FourIdentical ==
    /\ Len(layout.allTasksSorted) = 4
    /\ \A k \in DOMAIN layout.allTasksSorted :
        /\ layout.allTasksSorted[k].start = layout.allTasksSorted[1].start
        /\ layout.allTasksSorted[k].end = layout.allTasksSorted[1].end

\* C10: four tasks of one identical interval get columns 0, 1, 2 and 0: one
\* task in column 1, one in column 2, two in column 0, and so exactly one
\* pair of one column sharing an instant
C10_FourIdenticalColumns ==
    (LayoutDone /\ FourIdentical) =>
        /\ Cardinality({k \in 1..4 : ColumnOf(layout.allTasksSorted[k].taskId) = 1}) = 1
        /\ Cardinality({k \in 1..4 : ColumnOf(layout.allTasksSorted[k].taskId) = 2}) = 1
        /\ Cardinality({k \in 1..4 : ColumnOf(layout.allTasksSorted[k].taskId) = 0}) = 2
        /\ Cardinality(ClashingPairs) = 1

\* the finished layout of four tasks of one identical interval
C10_Witness ==
    /\ LayoutDone
    /\ FourIdentical
    /\ Cardinality(layout.forced) = 1

====
